---- MODULE Spec2Model ----
(***************************************************************************)
(* Form component tree engine of form-js-mcp: the component tree and its   *)
(* traversal helpers, the mutation handlers (add / duplicate / delete /    *)
(* move / property set with type change), the undo/redo history and the    *)
(* batch executor with snapshot rollback, as reached through               *)
(* dispatchToolCall.                                                       *)
(*                                                                         *)
(* Object identity.  A FormSchema object is modelled by an address into    *)
(* `heap`; form.schema and the entries of the undo/redo stacks are         *)
(* addresses.  JSON.parse(JSON.stringify(x)) allocates a fresh address     *)
(* holding an equal tree.  Handlers that splice arrays or assign fields of *)
(* the live tree rewrite heap[form.schema] in place.  Components inside a  *)
(* schema are addressed by their path (sequence of 1-based indices).       *)
(*                                                                         *)
(* A component is a record                                                 *)
(*   id       0 = absent, otherwise the identity                           *)
(*   type     the type tag                                                 *)
(*   key      "" = absent (the code tests keys for truthiness)             *)
(*   label    "" = absent                                                  *)
(*   description, conditional (its hide expression), validate, text        *)
(*            "" = absent; text stands for the type-specific properties    *)
(*            (text content, image source, ...)                            *)
(*   cols     layout.columns, NoColumns = no layout.columns                *)
(*   row      layout.row, 0 = no layout.row, otherwise the row identifier  *)
(*   values, valuesKey, valuesExpression   "" = absent / undefined         *)
(*   hasComps TRUE iff the `components` property is present                *)
(*   comps    the `components` sequence (<<>> when absent)                 *)
(***************************************************************************)
EXTENDS Integers, Sequences, FiniteSets, TLC

\* ── Bounds of the model ───────────────────────────────────────────────────

\* Generated component ids are 1..MaxIds (randomBytes suffixes, assumed fresh).
MaxIds == 5

\* Calls through the dispatcher are issued while the addressed form's version
\* is below this (a mutation, its undo and its redo take three versions).
MaxVersion == 3

\* Direct handler calls are issued while the form's version is below this.
MaxMutations == 2

\* Calls are issued only while they leave at most this many undo entries.
MaxStack == 2

\* Longest operation list handed to a batch.
MaxBatch == 2

\* ── Program constants ─────────────────────────────────────────────────────

MAX_HISTORY == 50

DEFAULT_COLUMNS == 16

INPUT_FIELD_TYPES == {"textfield", "textarea", "number", "datetime", "expression", "filepicker"}

SELECTION_FIELD_TYPES == {"checkbox", "checklist", "radio", "select", "taglist"}

PRESENTATION_FIELD_TYPES == {"text", "html", "image", "table", "documentPreview", "spacer", "separator"}

CONTAINER_FIELD_TYPES == {"group", "dynamiclist", "iframe"}

ACTION_FIELD_TYPES == {"button"}

KEYED_FIELD_TYPES == INPUT_FIELD_TYPES \cup SELECTION_FIELD_TYPES

OPTIONS_FIELD_TYPES == {"select", "radio", "checklist", "taglist"}

SUPPORTED_FIELD_TYPES == INPUT_FIELD_TYPES \cup SELECTION_FIELD_TYPES \cup PRESENTATION_FIELD_TYPES \cup CONTAINER_FIELD_TYPES \cup ACTION_FIELD_TYPES

isKeyedType(type) == type \in KEYED_FIELD_TYPES

isSupportedType(type) == type \in SUPPORTED_FIELD_TYPES

isOptions(type) == type \in OPTIONS_FIELD_TYPES

isContainer(type) == type \in CONTAINER_FIELD_TYPES

\* ── Small sequence helpers (Array.prototype.splice) ───────────────────────

Range(s) == {s[i] : i \in 1..Len(s)}

\* s.splice(i-1, 1): remove the element at 1-based index i
SpliceOut(s, i) == SubSeq(s, 1, i - 1) \o SubSeq(s, i + 1, Len(s))

\* s.splice(pos, 0, e) for a 0-based pos in 0..Len(s)
SpliceIn(s, pos, e) == SubSeq(s, 1, pos) \o <<e>> \o SubSeq(s, pos + 1, Len(s))

\* ── Tree model (handlers/helpers.ts) ──────────────────────────────────────

RECURSIVE findPathFrom(_, _, _)
\* Depth-first search shared by findComponentById and findParentComponents:
\* the path of the first component whose id matches, <<>> when none does.
findPathFrom(components, id, i) ==
    IF i > Len(components) THEN <<>>
    ELSE IF components[i].id = id THEN <<i>>
    ELSE LET sub == IF components[i].hasComps
                    THEN findPathFrom(components[i].comps, id, 1)
                    ELSE <<>>
         IN IF sub # <<>> THEN <<i>> \o sub
            ELSE findPathFrom(components, id, i + 1)

findComponentById(components, id) == findPathFrom(components, id, 1)

RECURSIVE GetAt(_, _)
\* The component a path designates.
GetAt(components, path) ==
    IF Len(path) = 1 THEN components[path[1]]
    ELSE GetAt(components[path[1]].comps, Tail(path))

RECURSIVE SeqAt(_, _)
\* The components sequence owned by the node at `path` (<<>> = the root).
SeqAt(components, path) ==
    IF path = <<>> THEN components
    ELSE SeqAt(components[path[1]].comps, Tail(path))

RECURSIVE SetAt(_, _, _)
\* The tree with the component at `path` replaced by `c` (in-place field writes).
SetAt(components, path, c) ==
    IF Len(path) = 1 THEN [components EXCEPT ![path[1]] = c]
    ELSE [components EXCEPT ![path[1]] =
            [@ EXCEPT !.comps = SetAt(@, Tail(path), c)]]

RECURSIVE SetSeqAt(_, _, _)
\* The tree with the sequence owned by the node at `path` replaced by `s`
\* (in-place splice / push on the array findParentComponents returned).
SetSeqAt(components, path, s) ==
    IF path = <<>> THEN s
    ELSE [components EXCEPT ![path[1]] =
            [@ EXCEPT !.comps = SetSeqAt(@, Tail(path), s), !.hasComps = TRUE]]

\* Path of the node owning the sequence that holds the component at `path`.
ParentPath(path) == SubSeq(path, 1, Len(path) - 1)

RECURSIVE collectAllKeys(_)
\* All truthy keys, depth first.
collectAllKeys(components) ==
    IF components = <<>> THEN <<>>
    ELSE LET c == Head(components)
         IN (IF c.key # "" THEN <<c.key>> ELSE <<>>)
            \o (IF c.hasComps THEN collectAllKeys(c.comps) ELSE <<>>)
            \o collectAllKeys(Tail(components))

RECURSIVE collectAllIds(_)
\* All present ids, depth first.
collectAllIds(components) ==
    IF components = <<>> THEN <<>>
    ELSE LET c == Head(components)
         IN (IF c.id # 0 THEN <<c.id>> ELSE <<>>)
            \o (IF c.hasComps THEN collectAllIds(c.comps) ELSE <<>>)
            \o collectAllIds(Tail(components))

RECURSIVE countComponents(_)
countComponents(components) ==
    IF components = <<>> THEN 0
    ELSE 1 + (IF Head(components).hasComps THEN countComponents(Head(components).comps) ELSE 0)
           + countComponents(Tail(components))

RECURSIVE flatten(_)
\* Every component of the tree, depth first (used to state properties).
flatten(components) ==
    IF components = <<>> THEN <<>>
    ELSE <<Head(components)>>
         \o (IF Head(components).hasComps THEN flatten(Head(components).comps) ELSE <<>>)
         \o flatten(Tail(components))

\* ── Nested objects of a component ─────────────────────────────────────────
\* comp.layout and comp.validate are objects.  layoutObj / validateObj say
\* which object a component refers to: 0 = the property is absent, 1 = an
\* object no other component refers to, n > 1 = object n, which every
\* component of the tree with the same number refers to as well.  cols, row
\* and validate hold what is read through the reference.

RECURSIVE Unshared(_)
\* JSON.parse(JSON.stringify(components)): equal values, and every object
\* referred to by one component only.
Unshared(components) ==
    [i \in 1..Len(components) |->
        [components[i] EXCEPT !.layoutObj = IF @ > 1 THEN 1 ELSE @,
                              !.validateObj = IF @ > 1 THEN 1 ELSE @,
                              !.comps = Unshared(@)]]

\* The largest object number in use (1 when nothing is shared).
maxObj(components) ==
    LET used == {c.layoutObj : c \in Range(flatten(components))}
                \cup {c.validateObj : c \in Range(flatten(components))} \cup {1}
    IN CHOOSE m \in used : \A n \in used : n <= m

RECURSIVE writeLayoutObj(_, _, _, _)
\* layout.columns / layout.row assigned on layout object obj: the values
\* show on every component that refers to it.
writeLayoutObj(components, obj, cols, row) ==
    [i \in 1..Len(components) |->
        [components[i] EXCEPT !.cols = IF components[i].layoutObj = obj THEN cols ELSE @,
                              !.row = IF components[i].layoutObj = obj THEN row ELSE @,
                              !.comps = writeLayoutObj(@, obj, cols, row)]]

RECURSIVE writeValidateObj(_, _, _)
\* Rules assigned on validate object obj.
writeValidateObj(components, obj, rules) ==
    [i \in 1..Len(components) |->
        [components[i] EXCEPT !.validate = IF components[i].validateObj = obj THEN rules ELSE @,
                              !.comps = writeValidateObj(@, obj, rules)]]

\* if (!comp.layout) comp.layout = {}; then columns and row are assigned on
\* the layout object of the component at `path` (row 0 = delete layout.row).
writeLayout(tree, path, cols, row) ==
    LET c == GetAt(tree, path)
    IN IF c.layoutObj > 1 THEN writeLayoutObj(tree, c.layoutObj, cols, row)
       ELSE SetAt(tree, path, [c EXCEPT !.cols = cols, !.row = row, !.layoutObj = 1])

\* What component c holds in its layout and validate objects after the
\* setter worked on it, shown on the components that refer to the same objects.
syncShared(tree, c) ==
    LET t1 == IF c.layoutObj > 1 THEN writeLayoutObj(tree, c.layoutObj, c.cols, c.row) ELSE tree
    IN IF c.validateObj > 1 THEN writeValidateObj(t1, c.validateObj, c.validate) ELSE t1

RECURSIVE shareObjects(_, _)
RECURSIVE shareObjectsSeq(_, _)
\* { ...comp } copies the references comp.layout and comp.validate into the
\* clone: an object of the source that was its own gets a number (above
\* `obj`, the numbers in use), under which source and clone refer to it.
shareObjects(comp, obj) ==
    LET l == IF comp.layoutObj = 1 THEN obj + 1 ELSE comp.layoutObj
        o1 == IF comp.layoutObj = 1 THEN obj + 1 ELSE obj
        v == IF comp.validateObj = 1 THEN o1 + 1 ELSE comp.validateObj
        o2 == IF comp.validateObj = 1 THEN o1 + 1 ELSE o1
        kids == shareObjectsSeq(comp.comps, o2)
    IN [c |-> [comp EXCEPT !.layoutObj = l, !.validateObj = v, !.comps = kids.cs], obj |-> kids.obj]

shareObjectsSeq(cs, obj) ==
    IF cs = <<>> THEN [cs |-> <<>>, obj |-> obj]
    ELSE LET h == shareObjects(Head(cs), obj)
             t == shareObjectsSeq(Tail(cs), h.obj)
         IN [cs |-> <<h.c>> \o t.cs, obj |-> t.obj]

\* ── Form store, history store and schema objects ──────────────────────────

\* Form identifiers handed out by generateFormId; "f2" is never created here,
\* so a call addressing it fails with "Form not found".
FormIds == {"f1", "f2"}

\* A FormState that is not in the store.
NoForm == [exists |-> FALSE, schema |-> 0, version |-> 0]

\* form-manager getForm: the FormState stored under the id (NoForm = undefined).
getForm(w, f) == w.forms[f]

\* The live component tree of a stored form (form.schema.components).
Live(w, f) == w.heap[w.forms[f].schema]

\* In-place mutation of the live tree of form f.
WriteLive(w, f, tree) == [w EXCEPT !.heap[w.forms[f].schema] = tree]

\* Addresses some object still refers to.
Referenced(w) ==
    {w.forms[f].schema : f \in {g \in FormIds : w.forms[g].exists}}
    \cup UNION {Range(w.undo[f]) \cup Range(w.redo[f]) : f \in FormIds}

\* A fresh object address.
Alloc(w) == CHOOSE a \in 1..(Cardinality(DOMAIN w.heap) + 1) : a \notin DOMAIN w.heap

\* Garbage collection: unreachable schema objects are dropped from the heap.
Collect(w) ==
    LET keep == Referenced(w) \cap DOMAIN w.heap
    IN [w EXCEPT !.heap = [a \in keep |-> w.heap[a]]]

\* Mutant of JSONCopy: the reference itself is kept instead of a deep copy.
JSONCopy_shared(w, addr) == [w |-> w, addr |-> addr]

\* JSON.parse(JSON.stringify(schema)): a new object holding an equal tree.
JSONCopy(w, addr) ==
    LET a == Alloc(w)
    IN [w |-> [w EXCEPT !.heap = [x \in DOMAIN w.heap \cup {a} |->
                                    IF x = a THEN Unshared(w.heap[addr]) ELSE w.heap[x]]],
        addr |-> a]

\* Mutant of bumpVersion: the counter is left as it is.
bumpVersion_keeps(w, f) == w

\* helpers.ts bumpVersion
bumpVersion(w, f) == [w EXCEPT !.forms[f].version = @ + 1]

\* Handler outcomes: the call returned (ok) or threw (~ok); w is the store
\* as the call left it.
\* `err` names the error thrown, `completed` / `rolledBack` / `failed` are
\* the completedOperations, rolledBack and failedOperation fields of a batch
\* report ("" = the report has no failedOperation).
Ok(w) == [ok |-> TRUE, w |-> w, err |-> "", completed |-> 0, rolledBack |-> FALSE, failed |-> ""]

Fail(w, err) == [ok |-> FALSE, w |-> w, err |-> err, completed |-> 0, rolledBack |-> FALSE, failed |-> ""]

\* ── form_history.ts ───────────────────────────────────────────────────────

\* Mutant of pushSnapshot: the redo stack is left as it is.
pushSnapshot_keepsRedo(w, f) ==
    LET cp == JSONCopy(w, w.forms[f].schema)
        pushed == Append(w.undo[f], cp.addr)
    IN [cp.w EXCEPT !.undo[f] = IF Len(pushed) > MAX_HISTORY THEN Tail(pushed) ELSE pushed]

\* Mutant of pushSnapshot: at the cap the newest entry is dropped, not the
\* oldest.
pushSnapshot_dropsNewest(w, f) ==
    LET cp == JSONCopy(w, w.forms[f].schema)
        pushed == Append(w.undo[f], cp.addr)
        capped == IF Len(pushed) > MAX_HISTORY THEN SubSeq(pushed, 1, MAX_HISTORY) ELSE pushed
    IN [cp.w EXCEPT !.undo[f] = capped, !.redo[f] = <<>>]

pushSnapshot(w, f) ==
    LET cp == JSONCopy(w, w.forms[f].schema)
        pushed == Append(w.undo[f], cp.addr)
        capped == IF Len(pushed) > MAX_HISTORY THEN Tail(pushed) ELSE pushed
    IN [cp.w EXCEPT !.undo[f] = capped, !.redo[f] = <<>>]

\* Mutant of handleFormHistory: undo forgets to save the current state on
\* the redo stack.
handleFormHistory_noRedoPush(w, a) ==
    LET f == a.formId
    IN IF ~getForm(w, f).exists THEN Fail(w, "Form not found")
       ELSE IF a.action \notin {"undo", "redo"} THEN Fail(w, "Invalid action")
       ELSE IF a.action = "undo" THEN
            IF Len(w.undo[f]) = 0 THEN Fail(w, "Nothing to undo")
            ELSE Ok(bumpVersion([w EXCEPT !.undo[f] = SubSeq(@, 1, Len(@) - 1),
                                          !.forms[f].schema = w.undo[f][Len(w.undo[f])]], f))
       ELSE IF Len(w.redo[f]) = 0 THEN Fail(w, "Nothing to redo")
            ELSE LET cp == JSONCopy(w, w.forms[f].schema)
                 IN Ok(bumpVersion([cp.w EXCEPT !.undo[f] = Append(@, cp.addr),
                                                !.redo[f] = SubSeq(@, 1, Len(@) - 1),
                                                !.forms[f].schema = w.redo[f][Len(w.redo[f])]], f))

\* Mutant of handleFormHistory: an empty stack is a silent success.
handleFormHistory_emptyOk(w, a) ==
    LET f == a.formId
        from == IF a.action = "undo" THEN w.undo[f] ELSE w.redo[f]
    IN IF ~getForm(w, f).exists THEN Fail(w, "Form not found")
       ELSE IF a.action \notin {"undo", "redo"} THEN Fail(w, "Invalid action")
       ELSE IF Len(from) = 0 THEN Ok(w)
       ELSE LET cp == JSONCopy(w, w.forms[f].schema)
                w1 == IF a.action = "undo"
                      THEN [cp.w EXCEPT !.redo[f] = Append(@, cp.addr),
                                        !.undo[f] = SubSeq(@, 1, Len(@) - 1),
                                        !.forms[f].schema = from[Len(from)]]
                      ELSE [cp.w EXCEPT !.undo[f] = Append(@, cp.addr),
                                        !.redo[f] = SubSeq(@, 1, Len(@) - 1),
                                        !.forms[f].schema = from[Len(from)]]
            IN Ok(bumpVersion(w1, f))

\* Mutant of handleFormHistory: undo restores the newest snapshot and leaves
\* it on the undo stack.
handleFormHistory_undoKeepsEntry(w, a) ==
    LET f == a.formId
    IN IF ~getForm(w, f).exists THEN Fail(w, "Form not found")
       ELSE IF a.action \notin {"undo", "redo"} THEN Fail(w, "Invalid action")
       ELSE IF a.action = "undo" THEN
            IF Len(w.undo[f]) = 0 THEN Fail(w, "Nothing to undo")
            ELSE LET cp == JSONCopy(w, w.forms[f].schema)
                     previous == w.undo[f][Len(w.undo[f])]
                     w1 == [cp.w EXCEPT !.redo[f] = Append(@, cp.addr),
                                        !.forms[f].schema = previous]
                 IN Ok(bumpVersion(w1, f))
       ELSE IF Len(w.redo[f]) = 0 THEN Fail(w, "Nothing to redo")
            ELSE LET cp == JSONCopy(w, w.forms[f].schema)
                     next == w.redo[f][Len(w.redo[f])]
                     w1 == [cp.w EXCEPT !.undo[f] = Append(@, cp.addr),
                                        !.redo[f] = SubSeq(@, 1, Len(@) - 1),
                                        !.forms[f].schema = next]
                 IN Ok(bumpVersion(w1, f))

handleFormHistory(w, a) ==
    LET f == a.formId
    IN IF ~getForm(w, f).exists THEN Fail(w, "Form not found")
       ELSE IF a.action \notin {"undo", "redo"} THEN Fail(w, "Invalid action")
       ELSE IF a.action = "undo" THEN
            IF Len(w.undo[f]) = 0 THEN Fail(w, "Nothing to undo")
            ELSE LET cp == JSONCopy(w, w.forms[f].schema)
                     previous == w.undo[f][Len(w.undo[f])]
                     w1 == [cp.w EXCEPT !.redo[f] = Append(@, cp.addr),
                                        !.undo[f] = SubSeq(@, 1, Len(@) - 1),
                                        !.forms[f].schema = previous]
                 IN Ok(bumpVersion(w1, f))
       ELSE IF Len(w.redo[f]) = 0 THEN Fail(w, "Nothing to redo")
            ELSE LET cp == JSONCopy(w, w.forms[f].schema)
                     next == w.redo[f][Len(w.redo[f])]
                     w1 == [cp.w EXCEPT !.undo[f] = Append(@, cp.addr),
                                        !.redo[f] = SubSeq(@, 1, Len(@) - 1),
                                        !.forms[f].schema = next]
                 IN Ok(bumpVersion(w1, f))

\* ── delete_form.ts ────────────────────────────────────────────────────────

handleDeleteForm(w, a) ==
    IF ~getForm(w, a.formId).exists THEN Fail(w, "Form not found")
    ELSE Ok([w EXCEPT !.forms[a.formId] = NoForm])

\* ── Key and id synthesis ──────────────────────────────────────────────────

\* label.replaceAll(/[^\w]/g, '') on the labels the model uses
CleanLabel(label) ==
    CASE label = "Name" -> "Name"
      [] label = "First Name" -> "FirstName"
      [] label = "!" -> ""
      [] OTHER -> label

\* s.charAt(0).toLowerCase() + s.slice(1)
LowerFirst(s) ==
    CASE s = "Name" -> "name"
      [] s = "FirstName" -> "firstName"
      [] OTHER -> s

\* s.toLowerCase()
LowerAll(s) ==
    CASE s = "Name" -> "name"
      [] s = "FirstName" -> "firstname"
      [] OTHER -> s

RECURSIVE firstFreeKey(_, _, _, _)
\* The disambiguation loops of resolveKey, applyTypeChange and
\* deepCloneComponent: base, base<n>, base<n+1>, ... until unused.
firstFreeKey(base, candidate, counter, existing) ==
    IF candidate \in existing
    THEN firstFreeKey(base, base \o ToString(counter), counter + 1, existing)
    ELSE candidate

\* Mutant of resolveKey: the derived key is returned without looking at
\* the keys in use.
resolveKey_firstCandidate(rootComponents, explicitKey, label, type) ==
    IF explicitKey # "" THEN explicitKey
    ELSE LowerFirst(IF label # "" THEN CleanLabel(label) ELSE type)

resolveKey(rootComponents, explicitKey, label, type) ==
    LET key == IF explicitKey # "" THEN explicitKey
               ELSE LowerFirst(IF label # "" THEN CleanLabel(label) ELSE type)
    IN firstFreeKey(key, key, 1, Range(collectAllKeys(rootComponents)))

\* ── add_form_component.ts ─────────────────────────────────────────────────

\* position / parentId / id arguments that were not supplied
NoPos == -1

\* layout.columns (of a component) or columns (of a call) that is undefined
NoColumns == -1

\* A property bag that supplies nothing (args.properties ?? {}).
EmptyBag == [id |-> 0, type |-> "", key |-> "", cols |-> NoColumns,
             values |-> "", valuesKey |-> "", hasComps |-> FALSE, comps |-> <<>>]

\* { type, id, ...(args.properties ?? {}) }: the bag's entries override.
buildComponent(type, id, bag) ==
    [id |-> IF bag.id # 0 THEN bag.id ELSE id,
     type |-> IF bag.type # "" THEN bag.type ELSE type,
     key |-> bag.key,
     label |-> "",
     description |-> "", conditional |-> "", validate |-> "", text |-> "",
     cols |-> bag.cols,
     row |-> 0,
     layoutObj |-> IF bag.cols # NoColumns THEN 1 ELSE 0, validateObj |-> 0,
     values |-> bag.values, valuesKey |-> bag.valuesKey, valuesExpression |-> "",
     hasComps |-> bag.hasComps, comps |-> bag.comps]

RECURSIVE deepCloneComponent(_, _, _)
RECURSIVE deepCloneSeq(_, _, _)
\* Returns the clone together with the running key list and the next fresh
\* id (existingKeys is one array shared by the whole recursion).
deepCloneComponent(comp, existingKeys, nid) ==
    LET newKey == IF comp.key # ""
                  THEN firstFreeKey(comp.key \o "_copy", comp.key \o "_copy", 1, Range(existingKeys))
                  ELSE comp.key
        keys1 == IF comp.key # "" THEN Append(existingKeys, newKey) ELSE existingKeys
        kids == IF comp.hasComps THEN deepCloneSeq(comp.comps, keys1, nid + 1)
                ELSE [cs |-> <<>>, keys |-> keys1, nid |-> nid + 1]
    IN [c |-> [comp EXCEPT !.id = nid, !.key = newKey, !.comps = kids.cs],
        keys |-> kids.keys, nid |-> kids.nid]

\* clone.components.map((c) => deepCloneComponent(c, existingKeys))
deepCloneSeq(cs, existingKeys, nid) ==
    IF cs = <<>> THEN [cs |-> <<>>, keys |-> existingKeys, nid |-> nid]
    ELSE LET h == deepCloneComponent(Head(cs), existingKeys, nid)
             t == deepCloneSeq(Tail(cs), h.keys, h.nid)
         IN [cs |-> <<h.c>> \o t.cs, keys |-> t.keys, nid |-> t.nid]

handleAddFormComponent(w, a) ==
    LET f == a.formId
        tree == Live(w, f)
    IN IF ~getForm(w, f).exists THEN Fail(w, "Form not found")
       ELSE IF a.sourceComponentId # 0 THEN
            \* duplicate mode
            LET path == findComponentById(tree, a.sourceComponentId)
            IN IF path = <<>> THEN Fail(w, "Component not found")
               ELSE LET parentArr == SeqAt(tree, ParentPath(path))
                        idx == path[Len(path)]
                        source == shareObjects(parentArr[idx], maxObj(tree)).c
                        r == deepCloneComponent(source, collectAllKeys(tree), w.nextId)
                        tree1 == SetSeqAt(tree, ParentPath(path),
                                          SpliceIn([parentArr EXCEPT ![idx] = source], idx, r.c))
                    IN Ok(bumpVersion([WriteLive(w, f, tree1) EXCEPT !.nextId = r.nid], f))
       ELSE IF a.type = "" THEN Fail(w, "type required")
       ELSE IF ~isSupportedType(a.type) THEN Fail(w, "Unsupported field type")
       ELSE
            \* resolveTarget
            LET ppath == IF a.parentId = 0 THEN <<>> ELSE findComponentById(tree, a.parentId)
            IN IF a.parentId # 0 /\ ppath = <<>> THEN Fail(w, "Parent component not found")
               ELSE IF a.parentId # 0 /\ ~isContainer(GetAt(tree, ppath).type) THEN Fail(w, "Parent is not a container")
               ELSE LET target == SeqAt(tree, ppath)
                        \* if (!parent.components) parent.components = []
                        tree0 == SetSeqAt(tree, ppath, target)
                        c0 == buildComponent(a.type, w.nextId, a.properties)
                        c1 == IF a.label # "" THEN [c0 EXCEPT !.label = a.label] ELSE c0
                        c2 == IF isKeyedType(a.type)
                              THEN [c1 EXCEPT !.key = resolveKey(tree0, a.key, a.label, a.type)]
                              ELSE c1
                        placed == IF a.position >= 0 /\ a.position < Len(target)
                                  THEN SpliceIn(target, a.position, c2)
                                  ELSE Append(target, c2)
                        tree1 == SetSeqAt(tree0, ppath, placed)
                    IN Ok(bumpVersion([WriteLive(w, f, tree1) EXCEPT !.nextId = @ + 1], f))

\* ── delete_form_component.ts / modify_form_component handleDelete ─────────

\* Mutant of handleDeleteFormComponent: the children of the deleted component
\* are kept, spliced into its parent sequence in its place.
handleDeleteFormComponent_hoists(w, a) ==
    LET f == a.formId
        tree == Live(w, f)
    IN IF ~getForm(w, f).exists THEN Fail(w, "Form not found")
       ELSE LET path == findComponentById(tree, a.componentId)
            IN IF path = <<>> THEN Fail(w, "Component not found")
               ELSE LET parentArr == SeqAt(tree, ParentPath(path))
                        idx == path[Len(path)]
                        kept == SubSeq(parentArr, 1, idx - 1) \o parentArr[idx].comps
                                \o SubSeq(parentArr, idx + 1, Len(parentArr))
                        tree1 == SetSeqAt(tree, ParentPath(path), kept)
                    IN Ok(bumpVersion(WriteLive(w, f, tree1), f))

handleDeleteFormComponent(w, a) ==
    LET f == a.formId
        tree == Live(w, f)
    IN IF ~getForm(w, f).exists THEN Fail(w, "Form not found")
       ELSE LET path == findComponentById(tree, a.componentId)
            IN IF path = <<>> THEN Fail(w, "Component not found")
               ELSE LET parentArr == SeqAt(tree, ParentPath(path))
                        tree1 == SetSeqAt(tree, ParentPath(path), SpliceOut(parentArr, path[Len(path)]))
                    IN Ok(bumpVersion(WriteLive(w, f, tree1), f))

\* ── move_form_component.ts / modify_form_component handleMove ─────────────

\* Mutant of handleMoveFormComponent: the position is ignored, the component
\* is always pushed.
handleMoveFormComponent_alwaysAppends(w, a) ==
    LET f == a.formId
        tree == Live(w, f)
    IN IF ~getForm(w, f).exists THEN Fail(w, "Form not found")
       ELSE LET path == findComponentById(tree, a.componentId)
            IN IF path = <<>> THEN Fail(w, "Component not found")
               ELSE LET comp == GetAt(tree, path)
                        sourceArr == SeqAt(tree, ParentPath(path))
                        tree1 == SetSeqAt(tree, ParentPath(path), SpliceOut(sourceArr, path[Len(path)]))
                        w1 == WriteLive(w, f, tree1)
                        tpath == IF a.targetParentId = 0 THEN <<>>
                                 ELSE findComponentById(tree1, a.targetParentId)
                    IN IF a.targetParentId # 0 /\ tpath = <<>> THEN Fail(w1, "Target parent not found")
                       ELSE IF a.targetParentId # 0 /\ ~isContainer(GetAt(tree1, tpath).type) THEN Fail(w1, "Target is not a container")
                       ELSE LET tree2 == SetSeqAt(tree1, tpath, Append(SeqAt(tree1, tpath), comp))
                            IN Ok(bumpVersion(WriteLive(w, f, tree2), f))

handleMoveFormComponent(w, a) ==
    LET f == a.formId
        tree == Live(w, f)
    IN IF ~getForm(w, f).exists THEN Fail(w, "Form not found")
       ELSE LET path == findComponentById(tree, a.componentId)
            IN IF path = <<>> THEN Fail(w, "Component not found")
               ELSE LET comp == GetAt(tree, path)
                        sourceArr == SeqAt(tree, ParentPath(path))
                        \* sourceArr.splice(srcIdx, 1) happens before the target is resolved
                        tree1 == SetSeqAt(tree, ParentPath(path), SpliceOut(sourceArr, path[Len(path)]))
                        w1 == WriteLive(w, f, tree1)
                        tpath == IF a.targetParentId = 0 THEN <<>>
                                 ELSE findComponentById(tree1, a.targetParentId)
                    IN IF a.targetParentId # 0 /\ tpath = <<>> THEN Fail(w1, "Target parent not found")
                       ELSE IF a.targetParentId # 0 /\ ~isContainer(GetAt(tree1, tpath).type) THEN Fail(w1, "Target is not a container")
                       ELSE LET targetArr == SeqAt(tree1, tpath)
                                placed == IF a.position >= 0 /\ a.position <= Len(targetArr)
                                          THEN SpliceIn(targetArr, a.position, comp)
                                          ELSE Append(targetArr, comp)
                                tree2 == SetSeqAt(tree1, tpath, placed)
                            IN Ok(bumpVersion(WriteLive(w, f, tree2), f))

\* ── set_form_component_properties.ts ──────────────────────────────────────
\* args.properties is an ordered list of entries [k, s, n, isNull] with
\* distinct names k (Object.entries order): s is a string value, n a numeric
\* one (layout.columns), isNull marks the value null.

READ_ONLY_PROPS == {"id", "components"}

OPTION_SOURCE_NAMES == {"values", "valuesKey", "valuesExpression"}

\* props[k] !== undefined
PropHas(props, k) == \E i \in 1..Len(props) : props[i].k = k

\* props[k]
PropGet(props, k) == props[CHOOSE i \in 1..Len(props) : props[i].k = k]

\* props[k] is neither undefined nor null
PropSet(props, k) == PropHas(props, k) /\ ~PropGet(props, k).isNull

\* Outcome of a step working on one component: threw or not, and the
\* component as the step left it.
COk(c) == [ok |-> TRUE, c |-> c, err |-> ""]

CFail(c, err) == [ok |-> FALSE, c |-> c, err |-> err]

\* validate[k] copied over the rules of the existing validate object
applyValidation(comp, e) ==
    COk([comp EXCEPT !.validate = e.s, !.validateObj = IF @ = 0 THEN 1 ELSE @])

\* conditional === null || !conditional.hide deletes the property
applyConditional(comp, e) ==
    COk([comp EXCEPT !.conditional = IF e.isNull THEN "" ELSE e.s])

applyLayout(comp, e) ==
    IF e.n < 1 \/ e.n > DEFAULT_COLUMNS THEN CFail(comp, "layout.columns out of range")
    ELSE COk([comp EXCEPT !.cols = e.n, !.layoutObj = IF @ = 0 THEN 1 ELSE @])

applyOptionsSource(comp, props) ==
    IF ~isOptions(comp.type) THEN CFail(comp, "type does not support options")
    ELSE IF Cardinality({k \in OPTION_SOURCE_NAMES : PropSet(props, k)}) > 1 THEN CFail(comp, "only one options source")
    ELSE IF PropHas(props, "values") /\ PropGet(props, "values").isNull THEN CFail(comp, "values must be an array")
    ELSE LET c1 == IF PropHas(props, "values")
                   THEN [comp EXCEPT !.values = PropGet(props, "values").s,
                                     !.valuesKey = "", !.valuesExpression = ""]
                   ELSE comp
             c2 == IF PropHas(props, "valuesKey")
                   THEN [c1 EXCEPT !.valuesKey = IF PropGet(props, "valuesKey").isNull THEN ""
                                                 ELSE PropGet(props, "valuesKey").s,
                                   !.values = "", !.valuesExpression = ""]
                   ELSE c1
             c3 == IF PropHas(props, "valuesExpression")
                   THEN [c2 EXCEPT !.valuesExpression = IF PropGet(props, "valuesExpression").isNull THEN ""
                                                        ELSE PropGet(props, "valuesExpression").s,
                                   !.values = "", !.valuesKey = ""]
                   ELSE c2
         IN COk(c3)

\* Mutant of applyTypeChange: layout is missing from the universal bucket.
applyTypeChange_dropsLayout(comp, newType, tree, path) ==
    IF ~isSupportedType(newType) THEN CFail(comp, "Unsupported field type")
    ELSE IF comp.type = newType THEN CFail(comp, "already that type")
    ELSE LET kept == [comp EXCEPT
                        !.key = IF isKeyedType(newType) THEN @ ELSE "",
                        !.validate = IF isKeyedType(newType) THEN @ ELSE "",
                        !.validateObj = IF isKeyedType(newType) THEN @ ELSE 0,
                        !.text = "",
                        !.cols = NoColumns,
                        !.row = 0,
                        !.layoutObj = 0,
                        !.values = IF isOptions(newType) THEN @ ELSE "",
                        !.valuesKey = IF isOptions(newType) THEN @ ELSE "",
                        !.valuesExpression = IF isOptions(newType) THEN @ ELSE "",
                        !.hasComps = IF isContainer(newType) THEN @ ELSE FALSE,
                        !.comps = IF isContainer(newType) THEN @ ELSE <<>>,
                        !.type = newType]
             baseKey0 == LowerAll(CleanLabel(IF kept.label # "" THEN kept.label ELSE newType))
             baseKey == IF baseKey0 # "" THEN baseKey0 ELSE newType
             existingKeys == Range(collectAllKeys(SetAt(tree, path, kept)))
         IN IF isKeyedType(newType) /\ kept.key = ""
            THEN COk([kept EXCEPT !.key = firstFreeKey(baseKey, baseKey, 1, existingKeys)])
            ELSE COk(kept)

\* Mutant of applyTypeChange: the options bucket is kept for every keyed
\* type instead of the types that accept options.
applyTypeChange_optionsIfKeyed(comp, newType, tree, path) ==
    IF ~isSupportedType(newType) THEN CFail(comp, "Unsupported field type")
    ELSE IF comp.type = newType THEN CFail(comp, "already that type")
    ELSE LET kept == [comp EXCEPT
                        !.key = IF isKeyedType(newType) THEN @ ELSE "",
                        !.validate = IF isKeyedType(newType) THEN @ ELSE "",
                        !.validateObj = IF isKeyedType(newType) THEN @ ELSE 0,
                        !.text = "",
                        !.values = IF isKeyedType(newType) THEN @ ELSE "",
                        !.valuesKey = IF isKeyedType(newType) THEN @ ELSE "",
                        !.valuesExpression = IF isKeyedType(newType) THEN @ ELSE "",
                        !.hasComps = IF isContainer(newType) THEN @ ELSE FALSE,
                        !.comps = IF isContainer(newType) THEN @ ELSE <<>>,
                        !.type = newType]
             baseKey0 == LowerAll(CleanLabel(IF kept.label # "" THEN kept.label ELSE newType))
             baseKey == IF baseKey0 # "" THEN baseKey0 ELSE newType
             existingKeys == Range(collectAllKeys(SetAt(tree, path, kept)))
         IN IF isKeyedType(newType) /\ kept.key = ""
            THEN COk([kept EXCEPT !.key = firstFreeKey(baseKey, baseKey, 1, existingKeys)])
            ELSE COk(kept)

\* The component's own properties after a type change; `tree` is the live
\* tree and `path` the component's place in it (for collectAllKeys).
applyTypeChange(comp, newType, tree, path) ==
    IF ~isSupportedType(newType) THEN CFail(comp, "Unsupported field type")
    ELSE IF comp.type = newType THEN CFail(comp, "already that type")
    ELSE LET kept == [comp EXCEPT
                        !.key = IF isKeyedType(newType) THEN @ ELSE "",
                        !.validate = IF isKeyedType(newType) THEN @ ELSE "",
                        !.validateObj = IF isKeyedType(newType) THEN @ ELSE 0,
                        !.text = "",
                        !.values = IF isOptions(newType) THEN @ ELSE "",
                        !.valuesKey = IF isOptions(newType) THEN @ ELSE "",
                        !.valuesExpression = IF isOptions(newType) THEN @ ELSE "",
                        !.hasComps = IF isContainer(newType) THEN @ ELSE FALSE,
                        !.comps = IF isContainer(newType) THEN @ ELSE <<>>,
                        !.type = newType]
             baseKey0 == LowerAll(CleanLabel(IF kept.label # "" THEN kept.label ELSE newType))
             baseKey == IF baseKey0 # "" THEN baseKey0 ELSE newType
             existingKeys == Range(collectAllKeys(SetAt(tree, path, kept)))
         IN IF isKeyedType(newType) /\ kept.key = ""
            THEN COk([kept EXCEPT !.key = firstFreeKey(baseKey, baseKey, 1, existingKeys)])
            ELSE COk(kept)

applySingleProperty(comp, e, hasOptionsProp) ==
    IF e.k \in READ_ONLY_PROPS THEN CFail(comp, "read-only property")
    ELSE IF e.k = "type" THEN COk(comp)
    ELSE IF e.k \in OPTION_SOURCE_NAMES /\ hasOptionsProp THEN COk(comp)
    ELSE IF e.k = "layout" /\ ~e.isNull THEN applyLayout(comp, e)
    ELSE IF e.k = "layout" THEN COk([comp EXCEPT !.cols = NoColumns, !.row = 0, !.layoutObj = 0])
    ELSE IF e.k = "conditional" THEN applyConditional(comp, e)
    ELSE IF e.k = "validate" /\ ~e.isNull THEN applyValidation(comp, e)
    ELSE IF e.k = "validate" THEN COk([comp EXCEPT !.validate = "", !.validateObj = 0])
    ELSE IF e.k = "description" THEN COk([comp EXCEPT !.description = IF e.isNull THEN "" ELSE e.s])
    ELSE IF e.k = "text" THEN COk([comp EXCEPT !.text = IF e.isNull THEN "" ELSE e.s])
    ELSE IF e.k = "key" THEN COk([comp EXCEPT !.key = IF e.isNull THEN "" ELSE e.s])
    ELSE IF e.k = "label" THEN COk([comp EXCEPT !.label = IF e.isNull THEN "" ELSE e.s])
    ELSE COk(comp)

RECURSIVE applyEntries(_, _, _)
\* for (const [key, value] of Object.entries(props)) applySingleProperty(...):
\* stops at the first entry that throws, keeping what earlier entries wrote.
applyEntries(comp, props, hasOptionsProp) ==
    IF props = <<>> THEN COk(comp)
    ELSE LET r == applySingleProperty(comp, Head(props), hasOptionsProp)
         IN IF ~r.ok THEN r ELSE applyEntries(r.c, Tail(props), hasOptionsProp)

handleSetFormComponentProperties(w, a) ==
    LET f == a.formId
        tree == Live(w, f)
        props == a.props
    IN IF ~getForm(w, f).exists THEN Fail(w, "Form not found")
       ELSE LET path == findComponentById(tree, a.componentId)
            IN IF path = <<>> THEN Fail(w, "Component not found")
               ELSE LET comp == GetAt(tree, path)
                        r1 == IF PropSet(props, "type")
                              THEN applyTypeChange(comp, PropGet(props, "type").s, tree, path)
                              ELSE COk(comp)
                        hasOptionsProp == \E k \in OPTION_SOURCE_NAMES : PropHas(props, k)
                        r2 == IF ~r1.ok THEN r1
                              ELSE IF hasOptionsProp THEN applyOptionsSource(r1.c, props)
                              ELSE r1
                        r3 == IF ~r2.ok THEN r2 ELSE applyEntries(r2.c, props, hasOptionsProp)
                        w1 == WriteLive(w, f, syncShared(SetAt(tree, path, r3.c), r3.c))
                    IN IF r3.ok THEN Ok(bumpVersion(w1, f)) ELSE Fail(w1, r3.err)

\* ── auto_layout_form.ts ───────────────────────────────────────────────────

FULL_WIDTH_TYPES == {"text", "html", "separator", "spacer", "table", "documentPreview", "image",
                     "group", "dynamiclist", "iframe", "button"}

isPresentationType(type) == type \in PRESENTATION_FIELD_TYPES

\* generateRowId: a row identifier no component of the tree carries.
freshRow(components) ==
    LET rows == {c.row : c \in Range(flatten(components))} \cup {0}
    IN 1 + CHOOSE m \in rows : \A r \in rows : r <= m

RECURSIVE layoutSingleColumn(_, _)
\* Mutant of layoutSingleColumn: the children of containers are not visited.
layoutSingleColumn_topLevelOnly(components, gridWidth) ==
    [i \in 1..Len(components) |->
        [components[i] EXCEPT !.cols = gridWidth, !.row = 0, !.layoutObj = IF @ = 0 THEN 1 ELSE @]]

layoutSingleColumn(components, gridWidth) ==
    [i \in 1..Len(components) |->
        [components[i] EXCEPT !.cols = gridWidth, !.row = 0,
                              !.layoutObj = IF @ = 0 THEN 1 ELSE @,
                              !.comps = IF components[i].hasComps
                                        THEN layoutSingleColumn(@, gridWidth) ELSE @]]

RECURSIVE twoColumnFrom(_, _, _, _, _, _, _)
RECURSIVE twoColumnFrom_noFlush(_, _, _, _, _, _, _)
\* `level` is the path of the component whose children are being laid out
\* (<<>> = the root sequence), pendingPair the index of the field waiting
\* for its partner (0 = none), currentRow its row identifier, nrow the next
\* unused row identifier.  The whole tree is carried along because a write
\* to a layout object shows on every component that refers to it.

\* Mutant of twoColumnFrom: a full-width component does not flush the
\* pending field, which is paired with the next plain field beyond it.
twoColumnFrom_noFlush(tree, level, gridWidth, i, pendingPair, currentRow, nrow) ==
    LET cs == SeqAt(tree, level)
        flushed == IF pendingPair # 0
                   THEN writeLayout(tree, Append(level, pendingPair), gridWidth, 0)
                   ELSE tree
    IN IF i > Len(cs) THEN [tree |-> flushed, nrow |-> nrow]
       ELSE IF cs[i].type \in FULL_WIDTH_TYPES THEN
            LET placed == writeLayout(tree, Append(level, i), gridWidth, 0)
                sub == IF cs[i].hasComps
                       THEN twoColumnFrom_noFlush(placed, Append(level, i), gridWidth, 1, 0, 0, nrow)
                       ELSE [tree |-> placed, nrow |-> nrow]
            IN twoColumnFrom_noFlush(sub.tree, level, gridWidth, i + 1, pendingPair, currentRow, sub.nrow)
       ELSE IF pendingPair = 0 THEN twoColumnFrom_noFlush(tree, level, gridWidth, i + 1, i, nrow, nrow + 1)
       ELSE LET halfWidth == gridWidth \div 2
                first == writeLayout(tree, Append(level, pendingPair), halfWidth, currentRow)
                paired == writeLayout(first, Append(level, i), gridWidth - halfWidth, currentRow)
            IN twoColumnFrom_noFlush(paired, level, gridWidth, i + 1, 0, 0, nrow)

\* The loop of layoutTwoColumn from the i-th component on.
twoColumnFrom(tree, level, gridWidth, i, pendingPair, currentRow, nrow) ==
    LET cs == SeqAt(tree, level)
        flushed == IF pendingPair # 0
                   THEN writeLayout(tree, Append(level, pendingPair), gridWidth, 0)
                   ELSE tree
    IN IF i > Len(cs) THEN [tree |-> flushed, nrow |-> nrow]
       ELSE IF cs[i].type \in FULL_WIDTH_TYPES THEN
            LET placed == writeLayout(flushed, Append(level, i), gridWidth, 0)
                sub == IF cs[i].hasComps
                       THEN twoColumnFrom(placed, Append(level, i), gridWidth, 1, 0, 0, nrow)
                       ELSE [tree |-> placed, nrow |-> nrow]
            IN twoColumnFrom(sub.tree, level, gridWidth, i + 1, 0, 0, sub.nrow)
       ELSE IF pendingPair = 0 THEN twoColumnFrom(tree, level, gridWidth, i + 1, i, nrow, nrow + 1)
       ELSE LET halfWidth == gridWidth \div 2
                first == writeLayout(tree, Append(level, pendingPair), halfWidth, currentRow)
                paired == writeLayout(first, Append(level, i), gridWidth - halfWidth, currentRow)
            IN twoColumnFrom(paired, level, gridWidth, i + 1, 0, 0, nrow)

layoutTwoColumn(components, gridWidth) ==
    twoColumnFrom(components, <<>>, gridWidth, 1, 0, 0, freshRow(components)).tree

RECURSIVE compactFrom(_, _, _, _, _, _, _)
\* The loop of layoutCompact from the i-th component on.
compactFrom(tree, level, gridWidth, i, remainingInRow, currentRow, nrow) ==
    LET cs == SeqAt(tree, level)
    IN IF i > Len(cs) THEN [tree |-> tree, nrow |-> nrow]
       ELSE IF cs[i].type \in FULL_WIDTH_TYPES THEN
            LET placed == writeLayout(tree, Append(level, i), gridWidth, 0)
                sub == IF cs[i].hasComps
                       THEN compactFrom(placed, Append(level, i), gridWidth, 1, gridWidth, 0, nrow)
                       ELSE [tree |-> placed, nrow |-> nrow]
            IN compactFrom(sub.tree, level, gridWidth, i + 1, gridWidth, 0, sub.nrow)
       ELSE LET max(a, b) == IF a >= b THEN a ELSE b
                min(a, b) == IF a <= b THEN a ELSE b
                natural == CASE cs[i].type = "checkbox" -> max(4, gridWidth \div 4)
                             [] cs[i].type \in {"number", "datetime"} -> max(4, gridWidth \div 3)
                             [] isPresentationType(cs[i].type) -> gridWidth
                             [] OTHER -> gridWidth \div 2
                naturalWidth == max(1, min(natural, gridWidth))
                fits == naturalWidth <= remainingInRow
                room == IF fits THEN remainingInRow ELSE gridWidth
                row0 == IF fits THEN currentRow ELSE 0
                row1 == IF row0 = 0 THEN nrow ELSE row0
                nrow1 == IF row0 = 0 THEN nrow + 1 ELSE nrow
                placed == writeLayout(tree, Append(level, i), naturalWidth, row1)
                left == room - naturalWidth
            IN IF left <= 0 THEN compactFrom(placed, level, gridWidth, i + 1, gridWidth, 0, nrow1)
               ELSE compactFrom(placed, level, gridWidth, i + 1, left, row1, nrow1)

layoutCompact(components, gridWidth) ==
    compactFrom(components, <<>>, gridWidth, 1, gridWidth, 0, freshRow(components)).tree

handleAutoLayoutForm(w, a) ==
    LET f == a.formId
        gridWidth == IF a.columns = NoColumns THEN DEFAULT_COLUMNS ELSE a.columns
        strategy == IF a.strategy = "" THEN "single-column" ELSE a.strategy
    IN IF ~getForm(w, f).exists THEN Fail(w, "Form not found")
       ELSE IF gridWidth < 1 \/ gridWidth > DEFAULT_COLUMNS THEN Fail(w, "columns out of range")
       ELSE IF strategy \notin {"single-column", "two-column", "compact"} THEN Fail(w, "Invalid strategy")
       ELSE LET tree == Live(w, f)
                tree1 == CASE strategy = "single-column" -> layoutSingleColumn(tree, gridWidth)
                           [] strategy = "two-column" -> layoutTwoColumn(tree, gridWidth)
                           [] strategy = "compact" -> layoutCompact(tree, gridWidth)
            IN Ok(bumpVersion(WriteLive(w, f, tree1), f))

\* ── validator.ts and validate_form.ts ─────────────────────────────────────
\* An issue is [severity, componentId, check]; `check` names the function
\* that raised it.  seenKeys maps a key to what checkDuplicateKey stored for
\* it (comp.id ?? comp.type), seenIds is the set of ids met so far.

Issue(severity, comp, check) == [severity |-> severity, componentId |-> comp.id, check |-> check]

checkType(comp) ==
    IF comp.type = "" THEN <<Issue("error", comp, "checkType")>>
    ELSE IF comp.type \notin SUPPORTED_FIELD_TYPES THEN <<Issue("warning", comp, "checkType")>>
    ELSE <<>>

checkDuplicateId(comp, seenIds) ==
    IF comp.id # 0 /\ comp.id \in seenIds THEN <<Issue("error", comp, "checkDuplicateId")>> ELSE <<>>

checkKeyPresence(comp) ==
    IF comp.type \in KEYED_FIELD_TYPES /\ comp.key = ""
    THEN <<Issue("error", comp, "checkKeyPresence")>> ELSE <<>>

\* seenKeys.get(comp.key) is truthy
KeySeen(comp, seenKeys) == comp.key \in DOMAIN seenKeys /\ seenKeys[comp.key] # ""

checkDuplicateKey(comp, seenKeys) ==
    IF comp.key # "" /\ KeySeen(comp, seenKeys)
    THEN <<Issue("error", comp, "checkDuplicateKey")>> ELSE <<>>

RECURSIVE walkComponents(_, _, _, _)
walkComponents(components, issues, seenKeys, seenIds) ==
    IF components = <<>> THEN [issues |-> issues, seenKeys |-> seenKeys, seenIds |-> seenIds]
    ELSE LET comp == Head(components)
             found == checkType(comp) \o checkDuplicateId(comp, seenIds)
                      \o checkKeyPresence(comp) \o checkDuplicateKey(comp, seenKeys)
             ids1 == IF comp.id # 0 THEN seenIds \cup {comp.id} ELSE seenIds
             keys1 == IF comp.key # "" /\ ~KeySeen(comp, seenKeys)
                      THEN [k \in DOMAIN seenKeys \cup {comp.key} |->
                               IF k = comp.key
                               THEN (IF comp.id # 0 THEN ToString(comp.id) ELSE comp.type)
                               ELSE seenKeys[k]]
                      ELSE seenKeys
             inner == IF comp.hasComps
                      THEN walkComponents(comp.comps, issues \o found, keys1, ids1)
                      ELSE [issues |-> issues \o found, seenKeys |-> keys1, seenIds |-> ids1]
         IN walkComponents(Tail(components), inner.issues, inner.seenKeys, inner.seenIds)

\* issues.filter((i) => i.severity === 'error')
RECURSIVE onlyErrors(_)
onlyErrors(issues) ==
    IF issues = <<>> THEN <<>>
    ELSE (IF Head(issues).severity = "error" THEN <<Head(issues)>> ELSE <<>>) \o onlyErrors(Tail(issues))

\* Mutant of validateFormSchema: any issue, warnings included, makes the
\* form invalid.
validateFormSchema_anyIssue(components) ==
    LET issues == walkComponents(components, <<>>, <<>>, {}).issues
    IN [valid |-> issues = <<>>, issues |-> issues]

\* validateFormSchema on a schema that has a components array (every stored
\* schema has one).
validateFormSchema(components) ==
    LET issues == walkComponents(components, <<>>, <<>>, {}).issues
        hasErrors == \E i \in 1..Len(issues) : issues[i].severity = "error"
    IN [valid |-> ~hasErrors, issues |-> issues]

\* The report of validate_form: valid, issueCount and issues.
handleValidateForm(w, a) ==
    IF ~getForm(w, a.formId).exists
    THEN [ok |-> FALSE, err |-> "Form not found", valid |-> FALSE, issueCount |-> 0, issues |-> <<>>]
    ELSE LET result == validateFormSchema(Live(w, a.formId))
             issues == IF a.includeWarnings THEN result.issues ELSE onlyErrors(result.issues)
         IN [ok |-> TRUE, err |-> "", valid |-> result.valid, issueCount |-> Len(issues),
             issues |-> issues]

\* ── inspect_form (read-only) ──────────────────────────────────────────────

handleInspectForm(w, a) ==
    IF ~getForm(w, a.formId).exists THEN Fail(w, "Form not found") ELSE Ok(w)

\* ── modify_form_component.ts ──────────────────────────────────────────────

handleModifyFormComponent(w, a) ==
    CASE a.action = "delete" ->
            IF a.componentId = 0 THEN Fail(w, "componentId is required")
            ELSE handleDeleteFormComponent(w, a)
      [] a.action = "move" ->
            IF a.componentId = 0 THEN Fail(w, "componentId is required")
            ELSE handleMoveFormComponent(w, a)
      [] OTHER -> Fail(w, "Invalid action")

\* ── handlers/index.ts and batch_form_operations.ts ────────────────────────

TOOL_NAMES == {"add_form_component", "modify_form_component", "set_form_component_properties",
               "form_history", "delete_form", "inspect_form", "batch_form_operations",
               "auto_layout_form"}

\* Mutant of SNAPSHOT_SKIP: the read-only inspect_form is not on the list.
SNAPSHOT_SKIP_withoutInspect == {"create_form", "import_form_schema", "delete_form", "export_form",
                                 "list_form_components", "form_history", "batch_form_operations"}

SNAPSHOT_SKIP == {"create_form", "import_form_schema", "delete_form", "export_form",
                  "list_form_components", "inspect_form", "form_history", "batch_form_operations"}

RECURSIVE dispatchToolCall(_, _)
RECURSIVE runOperations(_, _, _, _, _)
RECURSIVE callHandler(_, _)

\* Rollback statements of the batch loop: form.schema = snapshot;
\* form.version = snapshotVersion.  A FormState that is no longer in the
\* store is not touched.
restoreSnapshot(w, f, snapshot, snapshotVersion) ==
    IF getForm(w, f).exists
    THEN [w EXCEPT !.forms[f].schema = snapshot, !.forms[f].version = snapshotVersion]
    ELSE w

\* Mutant of runOperations: the operations are taken from the end of the
\* list to its start.
runOperations_reversed(w, a, i, snapshot, snapshotVersion) ==
    LET f == a.formId
        op == a.operations[Len(a.operations) + 1 - i]
        rolledBack(err) == [ok |-> FALSE, err |-> err, completed |-> i - 1, rolledBack |-> TRUE,
                            failed |-> "",
                            w |-> restoreSnapshot(w, f, snapshot, snapshotVersion)]
    IN IF i > Len(a.operations)
       THEN [ok |-> TRUE, w |-> w, err |-> "", completed |-> Len(a.operations), rolledBack |-> FALSE,
             failed |-> ""]
       ELSE IF op.tool = "" THEN rolledBack("malformed operation")
       ELSE IF op.tool = "batch_form_operations" THEN rolledBack("nested batch")
       ELSE LET r == dispatchToolCall(w, op)
            IN IF r.ok THEN runOperations(r.w, a, i + 1, snapshot, snapshotVersion)
               ELSE [ok |-> FALSE, err |-> r.err, completed |-> i - 1, rolledBack |-> TRUE,
                     failed |-> op.tool,
                     w |-> restoreSnapshot(r.w, f, snapshot, snapshotVersion)]

\* The body of the for-loop of handleBatchFormOperations from operation i on.
runOperations(w, a, i, snapshot, snapshotVersion) ==
    LET f == a.formId
        op == a.operations[i]
        rolledBack(err) == [ok |-> FALSE, err |-> err, completed |-> i - 1, rolledBack |-> TRUE,
                            failed |-> "",
                            w |-> restoreSnapshot(w, f, snapshot, snapshotVersion)]
    IN IF i > Len(a.operations)
       THEN [ok |-> TRUE, w |-> w, err |-> "", completed |-> Len(a.operations), rolledBack |-> FALSE,
             failed |-> ""]
       ELSE IF op.tool = "" THEN rolledBack("malformed operation")
       ELSE IF op.tool = "batch_form_operations" THEN rolledBack("nested batch")
       ELSE LET r == dispatchToolCall(w, op)
            IN IF r.ok THEN runOperations(r.w, a, i + 1, snapshot, snapshotVersion)
               ELSE [ok |-> FALSE, err |-> r.err, completed |-> i - 1, rolledBack |-> TRUE,
                     failed |-> op.tool,
                     w |-> restoreSnapshot(r.w, f, snapshot, snapshotVersion)]

handleBatchFormOperations(w, a) ==
    IF ~getForm(w, a.formId).exists THEN Fail(w, "Form not found")
    ELSE IF a.operations = <<>> THEN Fail(w, "operations must be a non-empty array")
    ELSE LET cp == JSONCopy(w, getForm(w, a.formId).schema)
         IN runOperations(cp.w, a, 1, cp.addr, getForm(w, a.formId).version)

\* dispatchMap.get(toolName)(args): the registered handler of a tool.
callHandler(w, op) ==
    CASE op.tool = "add_form_component" -> handleAddFormComponent(w, op)
      [] op.tool = "modify_form_component" -> handleModifyFormComponent(w, op)
      [] op.tool = "set_form_component_properties" -> handleSetFormComponentProperties(w, op)
      [] op.tool = "form_history" -> handleFormHistory(w, op)
      [] op.tool = "delete_form" -> handleDeleteForm(w, op)
      [] op.tool = "inspect_form" -> handleInspectForm(w, op)
      [] op.tool = "batch_form_operations" -> handleBatchFormOperations(w, op)
      [] op.tool = "auto_layout_form" -> handleAutoLayoutForm(w, op)

\* Mutant of dispatchToolCall: the undo snapshot is taken after the handler
\* has run instead of before.
dispatchToolCall_snapshotAfter(w, op) ==
    IF op.tool \notin TOOL_NAMES THEN Fail(w, "Unknown tool")
    ELSE LET r == callHandler(w, op)
         IN IF op.tool \notin SNAPSHOT_SKIP /\ getForm(r.w, op.formId).exists
            THEN [r EXCEPT !.w = pushSnapshot(r.w, op.formId)]
            ELSE r

dispatchToolCall(w, op) ==
    IF op.tool \notin TOOL_NAMES THEN Fail(w, "Unknown tool")
    ELSE callHandler(IF op.tool \notin SNAPSHOT_SKIP /\ getForm(w, op.formId).exists
                     THEN pushSnapshot(w, op.formId)
                     ELSE w,
                     op)

\* ── State ─────────────────────────────────────────────────────────────────

VARIABLES
    forms,      \* form store: FormIds -> [exists, schema (address), version]
    heap,       \* schema objects: address -> component tree
    undoStack,  \* historyStore: FormIds -> sequence of schema addresses (top last)
    redoStack,  \* historyStore: FormIds -> sequence of schema addresses (top last)
    nextId,     \* next fresh suffix of generated component ids
    last        \* the last top-level call: what it was, how it ended, the form before it

vars == <<forms, heap, undoStack, redoStack, nextId, last>>

\* The program state as the record the handlers work on.
World == [forms |-> forms, heap |-> heap, undo |-> undoStack, redo |-> redoStack, nextId |-> nextId]

\* What is observable of form f in store w: existence, live tree (as it is
\* serialized), version
\* and the sizes of its two stacks (getHistorySize).
View(w, f) ==
    [exists |-> w.forms[f].exists,
     tree |-> IF w.forms[f].exists THEN Unshared(Live(w, f)) ELSE <<>>,
     version |-> w.forms[f].version,
     undo |-> Len(w.undo[f]),
     redo |-> Len(w.redo[f])]

\* A tool call with every argument absent.
NoArgs == [tool |-> "", formId |-> "f1", action |-> "", componentId |-> 0,
           type |-> "", key |-> "", label |-> "", parentId |-> 0, position |-> NoPos,
           properties |-> EmptyBag, sourceComponentId |-> 0, targetParentId |-> 0,
           props |-> <<>>, operations |-> <<>>, columns |-> NoColumns, strategy |-> ""]

Comp(id, type, key, label, hasComps, comps) ==
    [id |-> id, type |-> type, key |-> key, label |-> label,
     description |-> "", conditional |-> "", validate |-> "", text |-> "",
     cols |-> NoColumns, row |-> 0, layoutObj |-> 0, validateObj |-> 0,
     values |-> "", valuesKey |-> "", valuesExpression |-> "",
     hasComps |-> hasComps, comps |-> comps]

\* Schemas a form starts from: create_form's empty schema, or an imported
\* schema (import_form_schema stores what it is given, with version 0).
InitialTrees ==
    { <<>>,
      << Comp(1, "group", "", "", TRUE, << Comp(2, "textfield", "name", "Name", FALSE, <<>>) >>),
         Comp(3, "select", "select", "", FALSE, <<>>) >> }

Init ==
    /\ \E t \in InitialTrees :
          /\ heap = [a \in {1} |-> t]
          /\ nextId = countComponents(t) + 1
    /\ forms = [f \in FormIds |-> IF f = "f1" THEN [exists |-> TRUE, schema |-> 1, version |-> 0]
                                   ELSE NoForm]
    /\ undoStack = [f \in FormIds |-> <<>>]
    /\ redoStack = [f \in FormIds |-> <<>>]
    /\ last = [kind |-> "init", ok |-> TRUE, err |-> "", formId |-> "f1", cid |-> 0, target |-> 0,
               completed |-> 0, rolledBack |-> FALSE, failed |-> "", pre |-> View(World, "f1"),
               prev |-> "init"]

\* ── Inputs ────────────────────────────────────────────────────────────────

\* An id no component carries
MissingId == MaxIds + 4

\* Ids a caller names: the first ids of the live tree of f1, and one that
\* is not there.
KnownIds == IF forms["f1"].exists THEN Range(collectAllIds(Live(World, "f1"))) \cap 1..3 ELSE {}

ArgIds == KnownIds \cup {MissingId}

Entry(k, s, n, isNull) == [k |-> k, s |-> s, n |-> n, isNull |-> isNull]

AddCall == [NoArgs EXCEPT !.tool = "add_form_component"]

ModifyCall == [NoArgs EXCEPT !.tool = "modify_form_component"]

SetCall == [NoArgs EXCEPT !.tool = "set_form_component_properties"]

\* Arguments of add_form_component in add mode.
ArgAdds ==
    {[AddCall EXCEPT !.type = "textfield", !.label = "Name"],
     [AddCall EXCEPT !.type = "textfield", !.key = "name", !.parentId = 1, !.position = 0],
     [AddCall EXCEPT !.type = "group"],
     [AddCall EXCEPT !.type = "text", !.properties = [EmptyBag EXCEPT !.type = "textfield", !.key = "name"]],
     [AddCall EXCEPT !.type = "text", !.properties = [EmptyBag EXCEPT !.id = 1]],
     [AddCall EXCEPT !.type = "text", !.parentId = 3],
     [AddCall EXCEPT !.type = "text", !.parentId = MissingId],
     [AddCall EXCEPT !.type = "bogus"],
     [AddCall EXCEPT !.type = "text", !.formId = "f2"]}

\* Property lists handed to set_form_component_properties.
ArgProps ==
    {<<Entry("label", "First Name", 0, FALSE), Entry("id", "x", 0, FALSE)>>,
     <<Entry("layout", "", 8, FALSE)>>,
     <<Entry("label", "First Name", 0, FALSE), Entry("layout", "", 17, FALSE)>>,
     <<Entry("values", "opts", 0, FALSE)>>,
     <<Entry("values", "opts", 0, FALSE), Entry("valuesKey", "vk", 0, FALSE)>>,
     <<Entry("type", "select", 0, FALSE), Entry("values", "opts", 0, FALSE), Entry("valuesKey", "vk", 0, FALSE)>>,
     <<Entry("type", "textfield", 0, FALSE)>>,
     <<Entry("type", "text", 0, FALSE)>>,
     <<Entry("type", "bogus", 0, FALSE)>>,
     <<Entry("key", "name", 0, FALSE)>>}

\* Operations a batch is built from.
BatchPool ==
    {[AddCall EXCEPT !.type = "textfield", !.label = "Name"],
     [ModifyCall EXCEPT !.action = "delete", !.componentId = MissingId],
     [NoArgs EXCEPT !.tool = "delete_form"],
     [NoArgs EXCEPT !.tool = "nonexistent_tool"],
     [NoArgs EXCEPT !.tool = "batch_form_operations",
                    !.operations = <<[AddCall EXCEPT !.type = "textfield", !.label = "Name"]>>],
     NoArgs}

ArgBatches ==
    UNION {[1..n -> BatchPool] : n \in 1..MaxBatch}

\* Mutating calls issued through the dispatcher in the history specification.
ArgMutations ==
    {[AddCall EXCEPT !.type = "textfield", !.label = "Name"],
     [AddCall EXCEPT !.type = "bogus"],
     [ModifyCall EXCEPT !.action = "delete", !.componentId = 3],
     [SetCall EXCEPT !.componentId = 2, !.props = <<Entry("label", "First Name", 0, FALSE)>>]}

\* ── Top-level calls ───────────────────────────────────────────────────────

\* The effect of a call with outcome r on the state.  The call is issued
\* only while the counters stay inside the model's bounds.
CommitWith(kind, op, r, maxVersion, maxStack, prev) ==
    LET w == Collect(r.w)
        f == op.formId
    IN /\ forms[f].version < maxVersion
       /\ w.nextId <= MaxIds + 1
       /\ \A g \in FormIds : Len(w.undo[g]) <= maxStack
       /\ forms' = w.forms
       /\ heap' = w.heap
       /\ undoStack' = w.undo
       /\ redoStack' = w.redo
       /\ nextId' = w.nextId
       /\ last' = [kind |-> kind, ok |-> r.ok, err |-> r.err, formId |-> f,
                   cid |-> IF kind = "duplicate" THEN op.sourceComponentId ELSE op.componentId,
                   target |-> op.targetParentId,
                   completed |-> r.completed, rolledBack |-> r.rolledBack, failed |-> r.failed,
                   pre |-> View(World, f),
                   prev |-> prev]

Commit(kind, op, r, maxVersion, prev) == CommitWith(kind, op, r, maxVersion, MaxStack, prev)

\* A handler called directly, as the handler tests do.
Direct(kind, op) == Commit(kind, op, callHandler(World, op), MaxMutations, "direct")

\* A call arriving through dispatchToolCall, as the server issues it;
\* last.prev remembers the call before it when that call succeeded.
Call(kind, op) ==
    Commit(kind, op, dispatchToolCall(World, op), MaxVersion, IF last.ok THEN last.kind ELSE "failed")

\* Tree engine: the mutation primitives.

AddComponent ==
    \E a \in ArgAdds : Direct("add", a)

DuplicateComponent ==
    \E c \in ArgIds : Direct("duplicate", [AddCall EXCEPT !.sourceComponentId = c])

DeleteComponent ==
    \E c \in ArgIds : Direct("delete", [ModifyCall EXCEPT !.action = "delete", !.componentId = c])

MoveComponent ==
    \E c \in ArgIds, t \in {0} \cup ArgIds, pos \in {NoPos, 0} :
        Direct("move", [ModifyCall EXCEPT !.action = "move", !.componentId = c,
                                          !.targetParentId = t, !.position = pos])

SetProperties ==
    \E c \in ArgIds, ps \in ArgProps : Direct("set", [SetCall EXCEPT !.componentId = c, !.props = ps])

Next ==
    \/ AddComponent
    \/ DuplicateComponent
    \/ DeleteComponent
    \/ MoveComponent
    \/ SetProperties

Spec == Init /\ [][Next]_vars

\* Creation only: sequences of add, duplicate and type-replace.

ReplaceType ==
    \E c \in ArgIds, t \in {"textfield", "select", "text", "group", "bogus"} :
        Direct("replace", [SetCall EXCEPT !.componentId = c, !.props = <<Entry("type", t, 0, FALSE)>>])

NextCreate ==
    \/ AddComponent
    \/ DuplicateComponent
    \/ ReplaceType

SpecCreate == Init /\ [][NextCreate]_vars

\* History and batch engine: calls through the dispatcher.

Mutate ==
    \E op \in ArgMutations : Call("mutate", op)

Undo == Call("undo", [NoArgs EXCEPT !.tool = "form_history", !.action = "undo"])

Redo == Call("redo", [NoArgs EXCEPT !.tool = "form_history", !.action = "redo"])

DeleteForm == Call("delete_form", [NoArgs EXCEPT !.tool = "delete_form"])

Inspect == Call("inspect", [NoArgs EXCEPT !.tool = "inspect_form"])

Batch ==
    \E ops \in ArgBatches :
        Call("batch", [NoArgs EXCEPT !.tool = "batch_form_operations", !.operations = ops])

NextHistory ==
    \/ Mutate
    \/ Undo
    \/ Redo
    \/ DeleteForm
    \/ Inspect
    \/ Batch

SpecHistory == Init /\ [][NextHistory]_vars

\* Batches of operations that can all succeed, next to the same operations
\* issued one by one.

OrderedPool ==
    {[AddCall EXCEPT !.type = "textfield", !.label = "Name"],
     [AddCall EXCEPT !.type = "group"],
     [ModifyCall EXCEPT !.action = "delete", !.componentId = 3],
     [SetCall EXCEPT !.componentId = 2, !.props = <<Entry("label", "First Name", 0, FALSE)>>]}

ArgOrdered ==
    UNION {[1..n -> OrderedPool] : n \in 1..MaxBatch}

BatchCall(ops) == [NoArgs EXCEPT !.tool = "batch_form_operations", !.operations = ops]

RECURSIVE callInOrder(_, _, _)
\* The operations from the i-th on issued as individual calls through the
\* dispatcher, stopping at the first that fails.
callInOrder(w, ops, i) ==
    IF i > Len(ops) THEN Ok(w)
    ELSE LET r == dispatchToolCall(w, ops[i])
         IN IF r.ok THEN callInOrder(r.w, ops, i + 1) ELSE r

BatchOrdered ==
    \E ops \in ArgOrdered : Call("batch", BatchCall(ops))

SingleCall ==
    \E op \in OrderedPool : Call("mutate", op)

NextBatch ==
    \/ BatchOrdered
    \/ SingleCall

SpecBatch == Init /\ [][NextBatch]_vars

\* Every tool behind the dispatcher, each with a few arguments.

LayoutCall == [NoArgs EXCEPT !.tool = "auto_layout_form"]

\* Calls of the tools that are not on the SNAPSHOT_SKIP list.
ArgTools ==
    {[AddCall EXCEPT !.type = "textfield", !.label = "Name"],
     [AddCall EXCEPT !.sourceComponentId = 1],
     [ModifyCall EXCEPT !.action = "delete", !.componentId = 3],
     [ModifyCall EXCEPT !.action = "delete", !.componentId = MissingId],
     [ModifyCall EXCEPT !.action = "move", !.componentId = 3, !.targetParentId = 1],
     [ModifyCall EXCEPT !.action = "move", !.componentId = 3, !.targetParentId = 2],
     [SetCall EXCEPT !.componentId = 2, !.props = <<Entry("label", "First Name", 0, FALSE)>>],
     [SetCall EXCEPT !.componentId = 3, !.props = <<Entry("type", "textfield", 0, FALSE)>>],
     [LayoutCall EXCEPT !.strategy = "two-column"],
     [LayoutCall EXCEPT !.columns = DEFAULT_COLUMNS + 1]}

\* Batches issued in the tools specification: one that succeeds, one that
\* fails at its second operation.
ArgToolBatches ==
    {<<[AddCall EXCEPT !.type = "textfield", !.label = "Name"]>>,
     <<[AddCall EXCEPT !.type = "textfield", !.label = "Name"],
       [ModifyCall EXCEPT !.action = "delete", !.componentId = MissingId]>>}

ToolCall ==
    \E op \in ArgTools : Call("mutate", op)

ToolBatch ==
    \E ops \in ArgToolBatches : Call("batch", BatchCall(ops))

NextTools ==
    \/ ToolCall
    \/ ToolBatch
    \/ Undo
    \/ Redo
    \/ Inspect

SpecTools == Init /\ [][NextTools]_vars

\* Layout, options and containment: the calls that write layout.columns,
\* the options sources and the components sequences.

\* add_form_component calls, most of them carrying a property bag.
ArgBags ==
    {[AddCall EXCEPT !.type = "textfield", !.label = "Name"],
     [AddCall EXCEPT !.type = "textfield", !.properties = [EmptyBag EXCEPT !.cols = 8]],
     [AddCall EXCEPT !.type = "textfield", !.properties = [EmptyBag EXCEPT !.cols = 99]],
     [AddCall EXCEPT !.type = "select", !.properties = [EmptyBag EXCEPT !.values = "opts"]],
     [AddCall EXCEPT !.type = "select",
                     !.properties = [EmptyBag EXCEPT !.values = "opts", !.valuesKey = "vk"]],
     [AddCall EXCEPT !.type = "textfield",
                     !.properties = [EmptyBag EXCEPT !.hasComps = TRUE,
                                                     !.comps = <<Comp(0, "text", "", "", FALSE, <<>>)>>]]}

\* Property lists that set the layout, an options source or the type.
ArgLayoutProps ==
    {<<Entry("layout", "", 8, FALSE)>>,
     <<Entry("layout", "", 0, FALSE)>>,
     <<Entry("layout", "", 17, FALSE)>>,
     <<Entry("layout", "", 0, TRUE)>>,
     <<Entry("values", "opts", 0, FALSE)>>,
     <<Entry("valuesKey", "vk", 0, FALSE)>>,
     <<Entry("valuesExpression", "=list", 0, FALSE)>>,
     <<Entry("values", "opts", 0, FALSE), Entry("valuesKey", "vk", 0, FALSE)>>,
     <<Entry("type", "textfield", 0, FALSE)>>,
     <<Entry("type", "radio", 0, FALSE)>>}

ArgStrategies == {"", "single-column", "two-column", "compact", "zigzag"}

ArgWidths == {NoColumns, 0, 1, 5, DEFAULT_COLUMNS, DEFAULT_COLUMNS + 1}

AddWithBag ==
    \E a \in ArgBags : Direct("add", a)

SetLayoutOrOptions ==
    \E c \in ArgIds, ps \in ArgLayoutProps :
        Direct("set", [SetCall EXCEPT !.componentId = c, !.props = ps])

AutoLayout ==
    \E st \in ArgStrategies, cols \in ArgWidths :
        Direct("layout", [LayoutCall EXCEPT !.strategy = st, !.columns = cols])

NextProps ==
    \/ AddWithBag
    \/ SetLayoutOrOptions
    \/ AutoLayout

SpecProps == Init /\ [][NextProps]_vars

\* History under load: dispatched calls that fill the undo stack up to its
\* cap.  A dispatched call pushes its snapshot whether or not the handler
\* then succeeds.

ArgFill ==
    {[ModifyCall EXCEPT !.action = "delete", !.componentId = MissingId],
     [SetCall EXCEPT !.componentId = 2, !.props = <<Entry("label", "First Name", 0, FALSE)>>]}

\* Calls of this specification are issued while they leave the undo stack
\* no more than one entry above the cap.
FillCall(kind, op) ==
    CommitWith(kind, op, dispatchToolCall(World, op), MaxMutations, MAX_HISTORY + 1,
               IF last.ok THEN last.kind ELSE "failed")

FillHistory ==
    \E op \in ArgFill : FillCall("mutate", op)

FillUndo == FillCall("undo", [NoArgs EXCEPT !.tool = "form_history", !.action = "undo"])

FillRedo == FillCall("redo", [NoArgs EXCEPT !.tool = "form_history", !.action = "redo"])

NextCap ==
    \/ FillHistory
    \/ FillUndo
    \/ FillRedo

SpecCap == Init /\ [][NextCap]_vars

\* Placement: adds, moves and deletes that name a parent and a position.

\* position arguments: absent, negative, first, second, beyond the end.
ArgPositions == {NoPos, -2, 0, 1, 5}

\* add_form_component calls naming a parent (0 = the root) and a position.
ArgPlaceAdds ==
    {[AddCall EXCEPT !.type = t, !.parentId = parent, !.position = pos] :
        t \in {"textfield", "group"}, parent \in {0, 1}, pos \in ArgPositions}

PlaceAdd ==
    \E a \in ArgPlaceAdds : Direct("add", a)

\* Ids a move names: the first four ids of the live tree, and one that is
\* not there.
PlaceIds ==
    (IF forms["f1"].exists THEN Range(collectAllIds(Live(World, "f1"))) \cap 1..(MaxIds - 1) ELSE {})
    \cup {MissingId}

\* move calls naming a component, a destination (0 = the root) and a position.
ArgPlaceMoves ==
    {[ModifyCall EXCEPT !.action = "move", !.componentId = c, !.targetParentId = t, !.position = pos] :
        c \in PlaceIds, t \in {0} \cup PlaceIds, pos \in ArgPositions}

PlaceMove ==
    \E a \in ArgPlaceMoves : Direct("move", a)

NextPlace ==
    \/ PlaceAdd
    \/ PlaceMove
    \/ DeleteComponent
    \/ DuplicateComponent

SpecPlace == Init /\ [][NextPlace]_vars

\* Type replace: set_form_component_properties calls whose only property is
\* `type`, on an imported schema whose components carry properties of every
\* bucket.

ImportedTree ==
    << [Comp(1, "textfield", "name", "First Name", FALSE, <<>>) EXCEPT
            !.description = "d", !.conditional = "=hide", !.validate = "required",
            !.validateObj = 1, !.cols = 8, !.row = 1, !.layoutObj = 1],
       [Comp(2, "select", "select", "", FALSE, <<>>) EXCEPT !.values = "opts"],
       [Comp(3, "text", "", "First Name", FALSE, <<>>) EXCEPT !.text = "hello", !.cols = 4,
                                                           !.layoutObj = 1],
       Comp(4, "group", "", "", TRUE, << Comp(5, "textfield", "textfield", "Name", FALSE, <<>>) >>) >>

InitReplace ==
    /\ heap = [a \in {1} |-> ImportedTree]
    /\ nextId = countComponents(ImportedTree) + 1
    /\ forms = [f \in FormIds |-> IF f = "f1" THEN [exists |-> TRUE, schema |-> 1, version |-> 0]
                                   ELSE NoForm]
    /\ undoStack = [f \in FormIds |-> <<>>]
    /\ redoStack = [f \in FormIds |-> <<>>]
    /\ last = [kind |-> "init", ok |-> TRUE, err |-> "", formId |-> "f1", cid |-> 0, target |-> 0,
               completed |-> 0, rolledBack |-> FALSE, failed |-> "", pre |-> View(World, "f1"),
               prev |-> "init"]

ArgNewTypes == {"textfield", "select", "text", "group", "bogus"}

TypeCall(c, t) == [SetCall EXCEPT !.componentId = c, !.props = <<Entry("type", t, 0, FALSE)>>]

ReplaceAny ==
    \E c \in 1..MaxIds \cup {MissingId}, t \in ArgNewTypes :
        CommitWith("replace", TypeCall(c, t), callHandler(World, TypeCall(c, t)), MaxMutations,
                   MaxStack, IF last.ok THEN last.kind ELSE "failed")

NextReplace == ReplaceAny

SpecReplace == InitReplace /\ [][NextReplace]_vars

\* Validation: imported schemas, valid or not, the add and delete calls of
\* the key-disambiguation scenario, and validate_form.

SchemaTypes == {"textfield", "text", "bogus", ""}

SchemaKeys == {"", "name"}

\* Components without children carrying the given id.
SchemaLeaves(id) == {Comp(id, t, k, "", FALSE, <<>>) : t \in SchemaTypes, k \in SchemaKeys}

\* Components carrying the given id; a group holds one component.
SchemaNodes(id) ==
    SchemaLeaves(id)
    \cup {Comp(id, "group", k, "", TRUE, <<c>>) : k \in SchemaKeys, c \in SchemaLeaves(3)}

\* Component sequences handed to import_form_schema.
ImportedSchemas ==
    {<<>>} \cup {<<a>> : a \in SchemaNodes(1)}
    \cup {<<a, b>> : a \in SchemaNodes(1), b \in SchemaLeaves(1) \cup SchemaLeaves(2)}

InitValidate ==
    /\ \E t \in ImportedSchemas :
          /\ heap = [a \in {1} |-> t]
          /\ nextId = IF t = <<>> THEN 1 ELSE 4
    /\ forms = [f \in FormIds |-> IF f = "f1" THEN [exists |-> TRUE, schema |-> 1, version |-> 0]
                                   ELSE NoForm]
    /\ undoStack = [f \in FormIds |-> <<>>]
    /\ redoStack = [f \in FormIds |-> <<>>]
    /\ last = [kind |-> "init", ok |-> TRUE, err |-> "", formId |-> "f1", cid |-> 0, target |-> 0,
               completed |-> 0, rolledBack |-> FALSE, failed |-> "", pre |-> View(World, "f1"),
               prev |-> "init"]

\* A handler called directly, up to MaxVersion mutations; last.prev remembers
\* the call before it when that call succeeded.
Step(kind, op) ==
    CommitWith(kind, op, callHandler(World, op), MaxVersion, MaxStack,
               IF last.ok THEN last.kind ELSE "failed")

AddNamed == Step("add", [AddCall EXCEPT !.type = "textfield", !.label = "Name"])

DeleteNamed ==
    \E c \in {1, 2, MissingId} :
        Step("delete", [ModifyCall EXCEPT !.action = "delete", !.componentId = c])

\* validate_form: read-only, its report is kept in `last`.
Validate ==
    \E f \in FormIds, includeWarnings \in BOOLEAN :
        LET r == handleValidateForm(World, [formId |-> f, includeWarnings |-> includeWarnings])
        IN /\ last' = [kind |-> "validate", ok |-> r.ok, err |-> r.err, formId |-> f,
                       cid |-> 0, target |-> 0, completed |-> 0, rolledBack |-> FALSE,
                       failed |-> "", pre |-> View(World, f),
                       prev |-> IF last.ok THEN last.kind ELSE "failed",
                       includeWarnings |-> includeWarnings,
                       valid |-> r.valid, issueCount |-> r.issueCount, issues |-> r.issues]
           /\ UNCHANGED <<forms, heap, undoStack, redoStack, nextId>>

NextValidate ==
    \/ AddNamed
    \/ DeleteNamed
    \/ Validate

SpecValidate == InitValidate /\ [][NextValidate]_vars

\* Auto-layout of imported schemas made of a plain field, a component of a
\* full-width type and another plain field; the call is kept in `last`.

ArgPlainTypes == {"textfield", "checkbox"}

LayoutSchemas ==
    {<< [Comp(1, p, "a", "", FALSE, <<>>) EXCEPT !.cols = prior[1], !.row = prior[2],
                                             !.layoutObj = IF prior[2] = 0 THEN 0 ELSE 1],
        IF fw = "group"
        THEN Comp(2, fw, "", "", TRUE, << Comp(4, "textfield", "c", "", FALSE, <<>>),
                                          Comp(5, "number", "d", "", FALSE, <<>>) >>)
        ELSE Comp(2, fw, "", "", FALSE, <<>>),
        Comp(3, q, "b", "", FALSE, <<>>) >> :
        p \in ArgPlainTypes, q \in ArgPlainTypes, fw \in FULL_WIDTH_TYPES,
        prior \in {<<NoColumns, 0>>, <<8, 1>>}}

InitLayout ==
    /\ \E t \in LayoutSchemas :
          /\ heap = [a \in {1} |-> t]
          /\ nextId = MaxIds + 1
    /\ forms = [f \in FormIds |-> IF f = "f1" THEN [exists |-> TRUE, schema |-> 1, version |-> 0]
                                   ELSE NoForm]
    /\ undoStack = [f \in FormIds |-> <<>>]
    /\ redoStack = [f \in FormIds |-> <<>>]
    /\ last = [kind |-> "init", ok |-> TRUE, err |-> "", formId |-> "f1", cid |-> 0, target |-> 0,
               completed |-> 0, rolledBack |-> FALSE, failed |-> "", pre |-> View(World, "f1"),
               prev |-> "init"]

LayoutStep ==
    \E st \in ArgStrategies, cols \in ArgWidths :
        LET op == [LayoutCall EXCEPT !.strategy = st, !.columns = cols]
            r == callHandler(World, op)
            w == Collect(r.w)
        IN /\ forms["f1"].version < MaxMutations
           /\ forms' = w.forms
           /\ heap' = w.heap
           /\ undoStack' = w.undo
           /\ redoStack' = w.redo
           /\ nextId' = w.nextId
           /\ last' = [kind |-> "layout", ok |-> r.ok, err |-> r.err, formId |-> "f1",
                       cid |-> 0, target |-> 0, completed |-> 0, rolledBack |-> FALSE,
                       failed |-> "", pre |-> View(World, "f1"),
                       prev |-> IF last.ok THEN last.kind ELSE "failed",
                       strategy |-> st,
                       gridWidth |-> IF cols = NoColumns THEN DEFAULT_COLUMNS ELSE cols]

NextLayout == LayoutStep

SpecLayout == InitLayout /\ [][NextLayout]_vars

\* Auto-layout of imported schemas of up to three components, each a plain
\* field, a separator or a group holding three fields, and of four plain
\* fields in a row.

GridKinds == {"textfield", "checkbox", "separator", "group"}

GridNode(kind, id) ==
    IF kind = "group"
    THEN Comp(id, kind, "", "", TRUE, << Comp(10 * id + 1, "textfield", "c", "", FALSE, <<>>),
                                         Comp(10 * id + 2, "number", "d", "", FALSE, <<>>),
                                         Comp(10 * id + 3, "checkbox", "e", "", FALSE, <<>>) >>)
    ELSE Comp(id, kind, IF kind = "separator" THEN "" ELSE "k", "", FALSE, <<>>)

GridSchemas ==
    {[i \in 1..Len(ks) |-> GridNode(ks[i], i)] :
        ks \in UNION {[1..n -> GridKinds] : n \in 1..3} \cup [1..4 -> ArgPlainTypes]}

InitGrid ==
    /\ \E t \in GridSchemas :
          /\ heap = [a \in {1} |-> t]
          /\ nextId = MaxIds + 1
    /\ forms = [f \in FormIds |-> IF f = "f1" THEN [exists |-> TRUE, schema |-> 1, version |-> 0]
                                   ELSE NoForm]
    /\ undoStack = [f \in FormIds |-> <<>>]
    /\ redoStack = [f \in FormIds |-> <<>>]
    /\ last = [kind |-> "init", ok |-> TRUE, err |-> "", formId |-> "f1", cid |-> 0, target |-> 0,
               completed |-> 0, rolledBack |-> FALSE, failed |-> "", pre |-> View(World, "f1"),
               prev |-> "init"]

SpecGrid == InitGrid /\ [][NextLayout]_vars

\* Duplicates, property sets and auto-layouts on imported schemas whose
\* components carry layout, validate and options values.

CloneSchemas ==
    { << [Comp(1, "textfield", "a", "", FALSE, <<>>) EXCEPT
              !.cols = 8, !.row = 1, !.layoutObj = 1, !.validate = "required", !.validateObj = 1],
         [Comp(2, "select", "s", "", FALSE, <<>>) EXCEPT
              !.cols = 8, !.row = 1, !.layoutObj = 1, !.values = "opts"],
         Comp(3, "textfield", "b", "", FALSE, <<>>) >>,
      << [Comp(1, "group", "", "", TRUE,
               << [Comp(2, "textfield", "a", "", FALSE, <<>>) EXCEPT
                       !.cols = 8, !.layoutObj = 1, !.validate = "required", !.validateObj = 1] >>)
              EXCEPT !.cols = 16, !.layoutObj = 1],
         [Comp(3, "select", "s", "", FALSE, <<>>) EXCEPT !.values = "opts"] >> }

InitClone ==
    /\ \E t \in CloneSchemas :
          /\ heap = [a \in {1} |-> t]
          /\ nextId = 4
    /\ forms = [f \in FormIds |-> IF f = "f1" THEN [exists |-> TRUE, schema |-> 1, version |-> 0]
                                   ELSE NoForm]
    /\ undoStack = [f \in FormIds |-> <<>>]
    /\ redoStack = [f \in FormIds |-> <<>>]
    /\ last = [kind |-> "init", ok |-> TRUE, err |-> "", formId |-> "f1", cid |-> 0, target |-> 0,
               completed |-> 0, rolledBack |-> FALSE, failed |-> "", pre |-> View(World, "f1"),
               prev |-> "init"]

ArgCloneProps ==
    {<<Entry("layout", "", 4, FALSE)>>,
     <<Entry("layout", "", 0, TRUE)>>,
     <<Entry("validate", "maxLength", 0, FALSE)>>,
     <<Entry("validate", "", 0, TRUE)>>,
     <<Entry("values", "other", 0, FALSE)>>}

CloneDuplicate ==
    \E c \in PlaceIds : Direct("duplicate", [AddCall EXCEPT !.sourceComponentId = c])

CloneSet ==
    \E c \in PlaceIds, ps \in ArgCloneProps :
        Direct("set", [SetCall EXCEPT !.componentId = c, !.props = ps])

NextClone ==
    \/ CloneDuplicate
    \/ CloneSet
    \/ LayoutStep

SpecClone == InitClone /\ [][NextClone]_vars

\* Two stored forms: batches on f1 whose operations may name f2, next to
\* single calls on either form.

InitForms ==
    /\ \E t \in InitialTrees :
          /\ heap = [a \in {1, 2} |-> IF a = 1 THEN t ELSE <<>>]
          /\ nextId = countComponents(t) + 1
    /\ forms = [f \in FormIds |-> [exists |-> TRUE, schema |-> IF f = "f1" THEN 1 ELSE 2, version |-> 0]]
    /\ undoStack = [f \in FormIds |-> <<>>]
    /\ redoStack = [f \in FormIds |-> <<>>]
    /\ last = [kind |-> "init", ok |-> TRUE, err |-> "", formId |-> "f1", cid |-> 0, target |-> 0,
               completed |-> 0, rolledBack |-> FALSE, failed |-> "", pre |-> View(World, "f1"),
               prev |-> "init"]

\* Operations of a batch on f1, some of them addressed to f2.
FormsPool ==
    {[AddCall EXCEPT !.type = "textfield", !.label = "Name"],
     [AddCall EXCEPT !.type = "textfield", !.label = "Name", !.formId = "f2"],
     [ModifyCall EXCEPT !.action = "delete", !.componentId = MissingId],
     [NoArgs EXCEPT !.tool = "delete_form"],
     [NoArgs EXCEPT !.tool = "delete_form", !.formId = "f2"]}

ArgFormsBatches ==
    UNION {[1..n -> FormsPool] : n \in 1..MaxBatch}

FormsBatch ==
    \E ops \in ArgFormsBatches : Call("batch", BatchCall(ops))

FormsMutate ==
    \E f \in FormIds :
        Call("mutate", [AddCall EXCEPT !.type = "textfield", !.label = "Name", !.formId = f])

NextForms ==
    \/ FormsBatch
    \/ FormsMutate

SpecForms == InitForms /\ [][NextForms]_vars

\* ── Properties ────────────────────────────────────────────────────────────

\* The live tree of form f (<<>> when the form is not in the store).
TreeOf(f) == View(World, f).tree

\* No value occurs twice in a sequence.
Distinct(s) == \A i, j \in 1..Len(s) : i # j => s[i] # s[j]

\* Keys of the components of keyed type, depth first.
KeyedKeys(tree) ==
    LET all == flatten(tree)
        RECURSIVE pick(_)
        pick(i) == IF i > Len(all) THEN <<>>
                   ELSE (IF isKeyedType(all[i].type) /\ all[i].key # "" THEN <<all[i].key>> ELSE <<>>)
                        \o pick(i + 1)
    IN pick(1)

BadDestination ==
    /\ last.kind = "move"
    /\ last.pre.exists
    /\ findComponentById(last.pre.tree, last.cid) # <<>>
    /\ last.target # 0
    /\ LET tp == findComponentById(last.pre.tree, last.target)
       IN tp = <<>> \/ ~isContainer(GetAt(last.pre.tree, tp).type)

\* C2: a move whose destination does not exist or is not a container fails
\* and leaves the tree as it was: the component is still at its original
\* index of its original parent sequence, with its subtree.
C2_BadMoveLeavesTree ==
    BadDestination => (~last.ok /\ TreeOf(last.formId) = last.pre.tree)

\* C3: when a property-setter call on an existing component is rejected,
\* nothing of the call has been applied: the tree (so the component) and
\* the form's version are what they were before the call.
C3_RejectedSetAppliesNothing ==
    (last.kind = "set" /\ ~last.ok /\ last.pre.exists
        /\ findComponentById(last.pre.tree, last.cid) # <<>>) =>
        /\ TreeOf(last.formId) = last.pre.tree
        /\ forms[last.formId].version = last.pre.version

\* C4: a dispatched mutation pushes the snapshot S of the tree it starts
\* from and turns the tree into S'; an undo called next succeeds, makes the
\* tree equal to S again and leaves the version higher than before the undo.
C4_UndoRestoresSnapshot ==
    [][(last.kind = "mutate" /\ last.ok /\ last'.kind = "undo") =>
          /\ last'.ok
          /\ TreeOf("f1")' = last.pre.tree
          /\ forms'["f1"].version > forms["f1"].version]_vars

C4_Witness ==
    /\ last.kind = "undo" /\ last.ok /\ last.prev = "mutate"
    /\ TreeOf("f1") # last.pre.tree

\* C5: after push S, mutate to S', undo, a redo called next succeeds, makes
\* the tree equal to S' (the tree the undo started from) and raises the
\* version once more.
C5_RedoRestoresMutation ==
    [][(last.kind = "undo" /\ last.ok /\ last.prev = "mutate" /\ last'.kind = "redo") =>
          /\ last'.ok
          /\ TreeOf("f1")' = last.pre.tree
          /\ forms'["f1"].version > forms["f1"].version]_vars

C5_Witness ==
    /\ last.kind = "redo" /\ last.ok /\ last.prev = "undo"
    /\ TreeOf("f1") # last.pre.tree

\* C6: under every sequence of add, duplicate and type-replace calls no two
\* components of the tree share an id.
C6_UniqueIds == Distinct(collectAllIds(TreeOf("f1")))

\* C7: under every sequence of add, duplicate and type-replace calls no two
\* components of keyed type share a key.
C7_UniqueKeyedKeys == Distinct(KeyedKeys(TreeOf("f1")))

\* C8: a successful property-setter call keeps the keys of keyed components
\* unique: it never accepts a key another keyed component already has.
C8_SetKeepsKeysUnique ==
    (last.kind = "set" /\ last.ok /\ Distinct(KeyedKeys(last.pre.tree))) =>
        Distinct(KeyedKeys(TreeOf(last.formId)))

\* Every schema object on a stack both before and after a step holds the
\* same tree after it as before.
SnapshotsUntouched ==
    \A f \in FormIds :
        \A a \in (Range(undoStack[f]) \cup Range(redoStack[f]))
                 \cap (Range(undoStack'[f]) \cup Range(redoStack'[f])) :
            heap'[a] = heap[a]

\* The live schema of a form is no stack entry, and no schema object is
\* held twice by the stacks.
NoAliasing ==
    /\ \A f, g \in FormIds :
          forms[f].exists => forms[f].schema \notin Range(undoStack[g]) \cup Range(redoStack[g])
    /\ \A f \in FormIds : Distinct(undoStack[f] \o redoStack[f])

\* C9: no step changes the tree held by a snapshot that stays on an undo or
\* redo stack; after every step (undo, redo and rollback included) the live
\* schema object is none of the stack entries; and the snapshot a batch
\* rolls back to still holds the pre-batch tree.
C9_SnapshotsNotAliased ==
    [][/\ SnapshotsUntouched
       /\ NoAliasing'
       /\ (last'.kind = "batch" /\ last'.rolledBack /\ forms'["f1"].exists) =>
              TreeOf("f1")' = TreeOf("f1")]_vars

C9_Witness ==
    /\ last.kind \in {"undo", "redo"} /\ last.ok
    /\ Len(undoStack["f1"]) + Len(redoStack["f1"]) >= 2
    /\ TreeOf("f1") # last.pre.tree

\* C10: undo with an empty undo stack, and redo with an empty redo stack,
\* fail with "Nothing to undo" / "Nothing to redo" and change neither the
\* tree, the version nor either stack.
C10_EmptyHistoryFails ==
    [][/\ (last'.kind = "undo" /\ forms["f1"].exists /\ Len(undoStack["f1"]) = 0) =>
              (~last'.ok /\ last'.err = "Nothing to undo"
               /\ UNCHANGED <<forms, heap, undoStack, redoStack>>)
       /\ (last'.kind = "redo" /\ forms["f1"].exists /\ Len(redoStack["f1"]) = 0) =>
              (~last'.ok /\ last'.err = "Nothing to redo"
               /\ UNCHANGED <<forms, heap, undoStack, redoStack>>)]_vars

C10_Witness ==
    /\ last.kind = "undo" /\ ~last.ok /\ last.err = "Nothing to undo"
    /\ last.pre.exists /\ last.pre.undo = 0
    /\ countComponents(TreeOf("f1")) > 0

\* C11: a snapshot push (made by every dispatched mutating call on a stored
\* form) leaves that form's redo stack empty, and a redo called right after
\* it fails with "Nothing to redo".
C11_PushClearsRedo ==
    [][/\ (last'.kind = "mutate" /\ forms["f1"].exists) =>
              (redoStack'["f1"] = <<>> /\ Len(undoStack'["f1"]) >= 1)
       /\ (last.kind = "mutate" /\ forms["f1"].exists /\ last'.kind = "redo") =>
              (~last'.ok /\ last'.err = "Nothing to redo")]_vars

C11_Witness ==
    /\ last.kind = "mutate" /\ last.pre.exists
    /\ last.pre.redo > 0
    /\ redoStack["f1"] = <<>>

\* C12: under every sequence of snapshot pushes, undos and redos neither
\* stack of a form ever holds more than MAX_HISTORY entries, and a push onto
\* a full undo stack discards its oldest entry: the entries above it move
\* down by one and the new snapshot, holding the pre-call tree, is on top.
C12_StacksCapped ==
    [][/\ \A f \in FormIds : /\ Len(undoStack'[f]) <= MAX_HISTORY
                              /\ Len(redoStack'[f]) <= MAX_HISTORY
       /\ (last'.kind = "mutate" /\ forms["f1"].exists /\ Len(undoStack["f1"]) = MAX_HISTORY) =>
              /\ Len(undoStack'["f1"]) = MAX_HISTORY
              /\ SubSeq(undoStack'["f1"], 1, MAX_HISTORY - 1) = Tail(undoStack["f1"])
              /\ \A i \in 1..(MAX_HISTORY - 1) :
                     heap'[undoStack'["f1"][i]] = heap[undoStack["f1"][i + 1]]
              /\ undoStack'["f1"][MAX_HISTORY] \notin Range(undoStack["f1"])
              /\ heap'[undoStack'["f1"][MAX_HISTORY]] = TreeOf("f1")]_vars

C12_Witness ==
    /\ last.kind = "mutate" /\ last.pre.exists
    /\ last.pre.undo = MAX_HISTORY
    /\ Len(undoStack["f1"]) = MAX_HISTORY
    /\ heap[undoStack["f1"][1]] # heap[undoStack["f1"][MAX_HISTORY]]

\* C13: a batch whose operations all succeed reports all of them completed
\* and leaves the form with the tree that the same operations, issued in
\* list order as individual dispatched calls, leave.
C13_BatchEqualsSequence ==
    forms["f1"].exists =>
        \A ops \in ArgOrdered :
            LET b == dispatchToolCall(World, BatchCall(ops))
                d == callInOrder(World, ops, 1)
            IN b.ok => /\ d.ok
                       /\ b.completed = Len(ops)
                       /\ View(b.w, "f1").tree = View(d.w, "f1").tree

C13_Witness ==
    /\ last.kind = "batch" /\ last.ok /\ last.completed = 2
    /\ last.pre.tree = <<>>
    /\ Len(TreeOf("f1")) = 2
    /\ TreeOf("f1")[1].type = "textfield" /\ TreeOf("f1")[2].type = "group"

RECURSIVE firstFailure(_, _, _)
\* Index of the first operation, from the i-th on, that fails when the
\* operations are issued in order from store w: a record without tool name,
\* a batch, or a call the dispatcher rejects.  0 when none fails.
firstFailure(w, ops, i) ==
    IF i > Len(ops) THEN 0
    ELSE IF ops[i].tool \in {"", "batch_form_operations"} THEN i
    ELSE LET r == dispatchToolCall(w, ops[i])
         IN IF r.ok THEN firstFailure(r.w, ops, i + 1) ELSE i

\* C14: a batch with a batch among its entries fails at that entry (when no
\* earlier entry fails): the entries before it are reported completed, the
\* nested operations are not run (no component id is consumed by them),
\* rollback is reported, and the form is in the store with its pre-batch
\* tree and version.
C14_NestedBatchRejected ==
    forms["f1"].exists =>
        \A ops \in ArgBatches :
            LET k == firstFailure(World, ops, 1)
                b == dispatchToolCall(World, BatchCall(ops))
            IN (k > 0 /\ ops[k].tool = "batch_form_operations") =>
                  /\ ~b.ok /\ b.rolledBack /\ b.completed = k - 1
                  /\ b.w.nextId = callInOrder(World, SubSeq(ops, 1, k - 1), 1).w.nextId
                  /\ View(b.w, "f1").exists
                  /\ View(b.w, "f1").tree = TreeOf("f1")
                  /\ View(b.w, "f1").version = forms["f1"].version

\* C15: when operation k of a batch is the first to fail, whatever the kind
\* of failure, the report says k-1 operations completed, names the failed
\* operation and says that rollback occurred.
C15_BatchFailureReport ==
    forms["f1"].exists =>
        \A ops \in ArgBatches :
            LET k == firstFailure(World, ops, 1)
                b == dispatchToolCall(World, BatchCall(ops))
            IN k > 0 => /\ ~b.ok
                        /\ b.completed = k - 1
                        /\ b.rolledBack
                        /\ b.failed = ops[k].tool

\* C16: a dispatched call of a mutating tool (one that is not on the
\* SNAPSHOT_SKIP list) on a stored form puts exactly one new entry on top of
\* that form's undo stack, holding the tree the call started from, so that
\* an undo issued next succeeds and restores that tree; a dispatched
\* read-only call leaves both stacks as they are.
C16_DispatchAutoSnapshot ==
    [][/\ (last'.kind = "mutate" /\ forms["f1"].exists) =>
              /\ Len(undoStack'["f1"]) = Len(undoStack["f1"]) + 1
              /\ SubSeq(undoStack'["f1"], 1, Len(undoStack["f1"])) = undoStack["f1"]
              /\ heap'[undoStack'["f1"][Len(undoStack'["f1"])]] = TreeOf("f1")
       /\ (last.kind = "mutate" /\ last.pre.exists /\ last'.kind = "undo") =>
              (last'.ok /\ TreeOf("f1")' = last.pre.tree)
       /\ (last'.kind = "inspect") => UNCHANGED <<undoStack, redoStack>>]_vars

C16_Witness ==
    /\ last.kind = "inspect" /\ last.ok /\ last.prev = "mutate"
    /\ Len(undoStack["f1"]) >= 1
    /\ heap[undoStack["f1"][Len(undoStack["f1"])]] # TreeOf("f1")

\* C17: the version of a form never goes down over a top-level call, and
\* goes up over every call that succeeds in mutating the form: a successful
\* call of a mutating tool, a successful undo or redo, and any successful
\* call that changes the tree.
C17_VersionMonotonic ==
    [][(forms["f1"].exists /\ forms'["f1"].exists) =>
          /\ forms'["f1"].version >= forms["f1"].version
          /\ (last'.ok /\ last'.kind \in {"mutate", "undo", "redo"}) =>
                 forms'["f1"].version > forms["f1"].version
          /\ (last'.ok /\ TreeOf("f1")' # TreeOf("f1")) =>
                 forms'["f1"].version > forms["f1"].version]_vars

C17_Witness ==
    /\ last.kind = "batch" /\ last.rolledBack /\ last.completed = 1
    /\ last.pre.version > 0
    /\ forms["f1"].exists /\ forms["f1"].version = last.pre.version

\* C18: after every successful mutation (a layout set, an add with a
\* property bag, an auto-layout run with any strategy and accepted width)
\* layout.columns of every component is absent or an integer in 1..16.
C18_ColumnsInRange ==
    last.ok =>
        \A c \in Range(flatten(TreeOf("f1"))) :
            c.cols = NoColumns \/ c.cols \in 1..DEFAULT_COLUMNS

\* The options sources a component has set.
OptionSources(c) ==
    {k \in OPTION_SOURCE_NAMES :
        \/ (k = "values" /\ c.values # "")
        \/ (k = "valuesKey" /\ c.valuesKey # "")
        \/ (k = "valuesExpression" /\ c.valuesExpression # "")}

\* C19: after every successful mutation each component has at most one of
\* values, valuesKey and valuesExpression set.
C19_OneOptionsSource ==
    last.ok =>
        \A c \in Range(flatten(TreeOf("f1"))) : Cardinality(OptionSources(c)) <= 1

\* C20: after every successful mutation only components of a container type
\* own a components sequence.
C20_OnlyContainersHaveChildren ==
    last.ok =>
        \A c \in Range(flatten(TreeOf("f1"))) : c.hasComps => isContainer(c.type)

\* The components of a tree in depth-first order, each without its children.
Outline(tree) ==
    LET all == flatten(tree)
    IN [i \in 1..Len(all) |-> [all[i] EXCEPT !.comps = <<>>]]

\* Number of descendants of a component.
Descendants(c) == IF c.hasComps THEN countComponents(c.comps) ELSE 0

\* Depth-first index of the component at `path` of a tree.
RECURSIVE DepthFirstIndex(_, _)
DepthFirstIndex(tree, path) ==
    countComponents(SubSeq(tree, 1, path[1] - 1)) + 1
    + (IF Len(path) = 1 THEN 0 ELSE DepthFirstIndex(tree[path[1]].comps, Tail(path)))

\* C21: a successful delete removes the component and all its descendants
\* and nothing else: the recursive count drops by 1 + the number of
\* descendants, and the remaining components are, in depth-first order, the
\* ones from before without the deleted subtree.
C21_DeleteRemovesSubtree ==
    (last.kind = "delete" /\ last.ok) =>
        LET path == findComponentById(last.pre.tree, last.cid)
            d == Descendants(GetAt(last.pre.tree, path))
            k == DepthFirstIndex(last.pre.tree, path)
            before == Outline(last.pre.tree)
        IN /\ countComponents(TreeOf(last.formId)) = countComponents(last.pre.tree) - (1 + d)
           /\ Outline(TreeOf(last.formId))
                = SubSeq(before, 1, k - 1) \o SubSeq(before, k + d + 1, Len(before))

C21_Witness ==
    /\ last.kind = "delete" /\ last.ok
    /\ countComponents(last.pre.tree) - countComponents(TreeOf(last.formId)) >= 2
    /\ countComponents(TreeOf(last.formId)) >= 1

\* The component with the given id in a tree.
ById(tree, id) == GetAt(tree, findComponentById(tree, id))

\* The universal properties the migration always keeps.
Universal(c) ==
    [id |-> c.id, label |-> c.label, description |-> c.description,
     conditional |-> c.conditional, cols |-> c.cols, row |-> c.row]

\* C22: two successful type replaces in a row on one component, from type A
\* to a distinct supported type B and back to A, leave the component's id,
\* label, description, conditional and layout as they were before the first.
C22_ReplaceRoundTrip ==
    [][(/\ last.kind = "replace" /\ last.ok
        /\ last'.kind = "replace" /\ last'.ok /\ last'.cid = last.cid
        /\ ById(TreeOf("f1")', last.cid).type = ById(last.pre.tree, last.cid).type) =>
          /\ ById(TreeOf("f1"), last.cid).type # ById(last.pre.tree, last.cid).type
          /\ Universal(ById(TreeOf("f1")', last.cid)) = Universal(ById(last.pre.tree, last.cid))]_vars

C22_Witness ==
    /\ last.kind = "replace" /\ last.ok /\ last.prev = "replace" /\ last.cid = 1
    /\ ById(TreeOf("f1"), 1).type = "textfield"
    /\ ById(TreeOf("f1"), 1).validate = ""
    /\ Universal(ById(TreeOf("f1"), 1)) = Universal(ImportedTree[1])

\* C23: after a successful type replace the component has keyed-only
\* properties (key, validate) only if its new type is keyed, an options
\* source only if the new type accepts options, components only if the new
\* type is a container, and no type-specific property of the old type.
C23_ReplaceKeepsLegalBuckets ==
    (last.kind = "replace" /\ last.ok) =>
        LET c == ById(TreeOf("f1"), last.cid)
        IN /\ (c.key # "" \/ c.validate # "") => isKeyedType(c.type)
           /\ OptionSources(c) # {} => isOptions(c.type)
           /\ c.hasComps => isContainer(c.type)
           /\ c.text = ""

C23_Witness ==
    /\ last.kind = "replace" /\ last.ok /\ last.cid = 2
    /\ ById(last.pre.tree, 2).values # ""
    /\ ById(TreeOf("f1"), 2).type = "textfield"
    /\ ById(TreeOf("f1"), 2).values = ""
    /\ ById(TreeOf("f1"), 2).key = "select"

\* C24: when a successful type replace targets a keyed type and the
\* component had no key, its new key is the one an add of that label and
\* type to the same tree (the tree the replace leaves, less this key) would
\* be given, and no other component has it.
C24_ReplaceKeyAsAdd ==
    (last.kind = "replace" /\ last.ok /\ ById(last.pre.tree, last.cid).key = ""
        /\ isKeyedType(ById(TreeOf("f1"), last.cid).type)) =>
        LET path == findComponentById(TreeOf("f1"), last.cid)
            c == GetAt(TreeOf("f1"), path)
            keyless == SetAt(TreeOf("f1"), path, [c EXCEPT !.key = ""])
        IN /\ c.key = resolveKey(keyless, "", c.label, c.type)
           /\ \A o \in Range(flatten(TreeOf("f1"))) : o.id # c.id => o.key # c.key

\* The position clamped into 0..len.
Clamp(pos, len) == IF pos < 0 THEN 0 ELSE IF pos > len THEN len ELSE pos

\* C25: a successful add with a position puts the new component at that
\* index of the target sequence, the position being clamped into
\* 0..length when it is negative or greater than the length; without a
\* position the new component is the last element.  The other elements
\* keep their order.
C25_AddAtClampedPosition ==
    forms["f1"].exists =>
        \A a \in ArgPlaceAdds :
            LET r == handleAddFormComponent(World, a)
                ppath == IF a.parentId = 0 THEN <<>> ELSE findComponentById(TreeOf("f1"), a.parentId)
                target == SeqAt(TreeOf("f1"), ppath)
                index == IF a.position = NoPos THEN Len(target) ELSE Clamp(a.position, Len(target))
                placed == SeqAt(View(r.w, "f1").tree, ppath)
            IN r.ok => /\ Len(placed) = Len(target) + 1
                       /\ placed[index + 1].id = nextId
                       /\ SpliceOut(placed, index + 1) = target

\* The tree without the subtree at `path`.
Without(tree, path) ==
    SetSeqAt(tree, ParentPath(path), SpliceOut(SeqAt(tree, ParentPath(path)), path[Len(path)]))

IsNamedField(c, key) == c.type = "textfield" /\ c.key = key /\ c.id # 0 /\ ~c.hasComps

\* C27: on an empty form, adding a textfield labelled "Name" gives it key
\* name and an id; adding a second one gives that one key name1; deleting
\* the first leaves exactly the second, with key name1; validating that form
\* reports valid = true and no issue.
C27_NameScenario ==
    /\ (last.kind = "add" /\ last.ok /\ last.pre.tree = <<>>) =>
           /\ Len(TreeOf("f1")) = 1
           /\ IsNamedField(TreeOf("f1")[1], "name")
    /\ (last.kind = "add" /\ last.ok /\ Len(last.pre.tree) = 1
            /\ IsNamedField(last.pre.tree[1], "name")) =>
           /\ Len(TreeOf("f1")) = 2
           /\ TreeOf("f1")[1] = last.pre.tree[1]
           /\ IsNamedField(TreeOf("f1")[2], "name1")
           /\ TreeOf("f1")[2].id # TreeOf("f1")[1].id
    /\ (last.kind = "delete" /\ last.ok /\ Len(last.pre.tree) = 2
            /\ IsNamedField(last.pre.tree[1], "name") /\ IsNamedField(last.pre.tree[2], "name1")
            /\ last.cid = last.pre.tree[1].id /\ last.cid # last.pre.tree[2].id) =>
           TreeOf("f1") = <<last.pre.tree[2]>>
    /\ (last.kind = "validate" /\ last.ok /\ Len(TreeOf(last.formId)) = 1
            /\ IsNamedField(TreeOf(last.formId)[1], "name1")) =>
           /\ last.valid
           /\ last.issueCount = 0
           /\ last.issues = <<>>

C27_Witness ==
    /\ last.kind = "validate" /\ last.ok /\ last.valid /\ last.prev = "delete"
    /\ last.pre.version >= 3
    /\ Len(TreeOf("f1")) = 1
    /\ IsNamedField(TreeOf("f1")[1], "name1")
    /\ TreeOf("f1")[1].id = 2 /\ TreeOf("f1")[1].label = "Name"

\* C28: validate_form reports valid exactly when none of the issues it
\* found has severity error; warnings, however many, leave the form valid.
C28_ValidIffNoError ==
    (last.kind = "validate" /\ last.ok) =>
        LET found == validateFormSchema(TreeOf(last.formId)).issues
        IN /\ last.valid <=> (\A i \in 1..Len(found) : found[i].severity # "error")
           /\ last.includeWarnings => last.issues = found
           /\ (found # <<>> /\ \A i \in 1..Len(found) : found[i].severity = "warning") => last.valid

C28_Witness ==
    /\ last.kind = "validate" /\ last.ok /\ last.valid /\ last.includeWarnings
    /\ last.issueCount >= 2
    /\ \A i \in 1..Len(last.issues) : last.issues[i].severity = "warning"

\* C29: the validator raises a duplicate-key error if and only if two
\* components of keyed type, at any depth, have the same key.
C29_DuplicateKeyIffKeyedClash ==
    (last.kind = "validate" /\ last.ok) =>
        ((\E i \in 1..Len(last.issues) : last.issues[i].check = "checkDuplicateKey")
            <=> ~Distinct(KeyedKeys(TreeOf(last.formId))))

\* The last call was a successful two-column layout of a sequence made of a
\* plain field, a component of a full-width type and a plain field.
TwoColumnAcrossFullWidth ==
    /\ last.kind = "layout" /\ last.ok /\ last.strategy = "two-column"
    /\ Len(last.pre.tree) = 3
    /\ last.pre.tree[1].type \notin FULL_WIDTH_TYPES
    /\ last.pre.tree[2].type \in FULL_WIDTH_TYPES
    /\ last.pre.tree[3].type \notin FULL_WIDTH_TYPES

\* C30 as stated: the full-width component gets columns = W and no row, and
\* the two plain fields share one generated row, their columns summing to W.
C30_PlainFieldsShareRow ==
    TwoColumnAcrossFullWidth =>
        LET t == TreeOf("f1")
        IN /\ t[2].cols = last.gridWidth /\ t[2].row = 0
           /\ t[1].row # 0 /\ t[1].row = t[3].row
           /\ t[1].cols + t[3].cols = last.gridWidth

\* C30 as amended: the full-width component gets columns = W and no row, and
\* it flushes the pairing, so each of the two plain fields gets a row of its
\* own as well: columns = W and no row.
C30_PlainFieldsSeparated ==
    TwoColumnAcrossFullWidth =>
        LET t == TreeOf("f1")
        IN /\ t[2].cols = last.gridWidth /\ t[2].row = 0
           /\ t[1].cols = last.gridWidth /\ t[1].row = 0
           /\ t[3].cols = last.gridWidth /\ t[3].row = 0

C30_Witness ==
    /\ TwoColumnAcrossFullWidth
    /\ last.gridWidth = 5
    /\ last.pre.tree[1].row # 0
    /\ last.pre.tree[2].type = "separator"
    /\ \A i \in 1..3 : TreeOf("f1")[i].cols = 5 /\ TreeOf("f1")[i].row = 0

RECURSIVE LaidOutLevels(_)
\* The component sequences a two-column or compact layout walks: the root
\* sequence and the children of every full-width component on a walked level.
LaidOutLevels(cs) ==
    {cs} \cup UNION {LaidOutLevels(cs[i].comps) :
                        i \in {j \in 1..Len(cs) : cs[j].type \in FULL_WIDTH_TYPES /\ cs[j].hasComps}}

\* The place of the i-th component in its run of consecutive plain fields.
PlaceInRun(cs, i) ==
    LET before == {j \in 0..(i - 1) : j = 0 \/ cs[j].type \in FULL_WIDTH_TYPES}
    IN i - CHOOSE m \in before : \A j \in before : j <= m

\* The number of components of the tree that carry row identifier r.
RowUsers(tree, r) ==
    LET all == flatten(tree) IN Cardinality({j \in 1..Len(all) : all[j].row = r})

\* C31: after a two-column layout with grid width W, on every laid-out
\* level a full-width component has columns = W and no row; consecutive
\* plain fields are paired, the first of a pair with floor(W/2) columns, the
\* second with W - floor(W/2), both on one row identifier that no other
\* component carries; a field left without a partner at a full-width
\* component or at the end of the sequence has columns = W and no row.
C31_TwoColumnPairs ==
    (last.kind = "layout" /\ last.ok /\ last.strategy = "two-column") =>
        LET W == last.gridWidth
            tree == TreeOf("f1")
        IN \A cs \in LaidOutLevels(tree) : \A i \in 1..Len(cs) :
              LET plain(j) == j \in 1..Len(cs) /\ cs[j].type \notin FULL_WIDTH_TYPES
                  k == PlaceInRun(cs, i)
              IN IF ~plain(i) THEN cs[i].cols = W /\ cs[i].row = 0
                 ELSE IF k % 2 = 1 /\ plain(i + 1)
                      THEN /\ cs[i].cols = W \div 2
                           /\ cs[i].row # 0
                           /\ cs[i + 1].row = cs[i].row
                           /\ RowUsers(tree, cs[i].row) = 2
                 ELSE IF k % 2 = 0
                      THEN cs[i].cols = W - (W \div 2) /\ cs[i].row = cs[i - 1].row
                 ELSE cs[i].cols = W /\ cs[i].row = 0

\* C32: a single-column layout gives every component, at every nesting
\* level, columns = W and no row, and a second single-column layout of the
\* same width leaves the tree it finds as it is.
C32_SingleColumnIdempotent ==
    \A st \in {"", "single-column"}, cols \in ArgWidths :
        LET op == [LayoutCall EXCEPT !.strategy = st, !.columns = cols]
            W == IF cols = NoColumns THEN DEFAULT_COLUMNS ELSE cols
            once == handleAutoLayoutForm(World, op)
            twice == handleAutoLayoutForm(once.w, op)
        IN once.ok =>
              /\ twice.ok
              /\ Live(twice.w, "f1") = Live(once.w, "f1")
              /\ \A c \in Range(flatten(Live(once.w, "f1"))) : c.cols = W /\ c.row = 0

\* The second of two single-column layouts of width 5 on a tree with a
\* group: the tree it found, nested fields included, is the tree it leaves.
C32_Witness ==
    /\ last.kind = "layout" /\ last.ok /\ last.strategy = "single-column" /\ last.gridWidth = 5
    /\ last.prev = "layout" /\ last.pre.version = 1
    /\ last.pre.tree = TreeOf("f1")
    /\ \E i \in 1..Len(TreeOf("f1")) :
          /\ TreeOf("f1")[i].type = "group"
          /\ \A c \in Range(TreeOf("f1")[i].comps) : c.cols = 5 /\ c.row = 0

RECURSIVE SumColumns(_, _)
\* The sum of the columns of the components of sequence cs on row r.
SumColumns(cs, r) ==
    IF cs = <<>> THEN 0
    ELSE (IF Head(cs).row = r THEN Head(cs).cols ELSE 0) + SumColumns(Tail(cs), r)

\* C33: after a compact layout with grid width W, every laid-out component
\* has between 1 and W columns, and the columns of the components on any one
\* row identifier sum to at most W.
C33_CompactFitsGrid ==
    \A W \in 1..DEFAULT_COLUMNS :
        LET r == handleAutoLayoutForm(World, [LayoutCall EXCEPT !.strategy = "compact", !.columns = W])
            tree == Live(r.w, "f1")
            all == flatten(tree)
        IN /\ r.ok
           /\ \A cs \in LaidOutLevels(tree) : \A i \in 1..Len(cs) : cs[i].cols \in 1..W
           /\ \A c \in Range(all) : c.row # 0 => SumColumns(all, c.row) <= W

\* What a component holds as layout, validation rules and options.
Facets(c) == <<c.cols, c.row, c.validate, c.values, c.valuesKey, c.valuesExpression>>

\* C34: a clone shares no mutable state with its source: a property set on
\* one component (the clone, a cloned descendant, or the source) leaves the
\* layout, validation rules and options of every other component as they were.
C34_CloneSharesNothing ==
    last.kind = "set" =>
        \A d \in Range(flatten(TreeOf("f1"))) :
            (d.id # last.cid /\ d.id \in Range(collectAllIds(last.pre.tree)))
                => Facets(d) = Facets(ById(last.pre.tree, d.id))

\* C35: a dispatched mutating call on a stored form that fails leaves the
\* form's undo and redo stacks as they were before the call: no snapshot is
\* recorded and pending redo entries are kept.
C35_FailedCallKeepsHistory ==
    (last.kind = "mutate" /\ ~last.ok /\ last.pre.exists) =>
        /\ Len(undoStack["f1"]) = last.pre.undo
        /\ Len(redoStack["f1"]) = last.pre.redo


\* C36: a batch that failed and was rolled back leaves the undo stack and the
\* redo stack of its target form as long as they were before the batch.
C36_RolledBackBatchKeepsHistory ==
    (last.kind = "batch" /\ last.rolledBack /\ last.pre.exists /\ forms[last.formId].exists) =>
        /\ View(World, last.formId).undo = last.pre.undo
        /\ View(World, last.formId).redo = last.pre.redo

\* C37: when a batch of two or more operations has succeeded, one undo
\* issued next succeeds and brings back the tree the form had before the batch.
C37_OneUndoRevertsBatch ==
    \A ops \in ArgBatches :
        LET b == dispatchToolCall(World, BatchCall(ops))
            u == dispatchToolCall(b.w, [NoArgs EXCEPT !.tool = "form_history", !.action = "undo"])
        IN (Len(ops) >= 2 /\ forms["f1"].exists /\ b.ok /\ getForm(b.w, "f1").exists) =>
               /\ u.ok
               /\ View(u.w, "f1").tree = TreeOf("f1")


\* C38: when a batch fails, every form that was stored before it is still
\* stored afterwards with the tree and the version it had before the batch,
\* the forms other than the batch's target included.
C38_FailedBatchKeepsEveryForm ==
    \A ops \in ArgFormsBatches :
        LET r == dispatchToolCall(World, BatchCall(ops))
        IN (forms["f1"].exists /\ ~r.ok) =>
               \A g \in FormIds :
                   forms[g].exists =>
                       /\ View(r.w, g).exists
                       /\ View(r.w, g).tree = TreeOf(g)
                       /\ View(r.w, g).version = forms[g].version


\* The last move named a container and, as destination, that container
\* itself or a component of its subtree.
IntoOwnSubtree ==
    /\ last.kind = "move"
    /\ last.pre.exists
    /\ findComponentById(last.pre.tree, last.cid) # <<>>
    /\ LET comp == GetAt(last.pre.tree, findComponentById(last.pre.tree, last.cid))
       IN /\ isContainer(comp.type)
          /\ last.target \in Range(collectAllIds(<<comp>>))

\* C39: a move of a container into itself or into one of its descendants is
\* rejected and leaves the tree as it was, the container and its subtree
\* still reachable from the root.
C39_MoveIntoOwnSubtreeRejected ==
    IntoOwnSubtree =>
        /\ ~last.ok
        /\ TreeOf(last.formId) = last.pre.tree


\* Longest chain of arbitrary mutations tried from one state.
MaxChain == 3

\* A chain of MAX_HISTORY mutations that fills the undo stack to its cap:
\* two adds, then the label of component 2 set to and fro, so that every
\* call changes the tree.
FillChain ==
    [i \in 1..MAX_HISTORY |->
        IF i <= 2 THEN [AddCall EXCEPT !.type = "textfield", !.label = "Name"]
        ELSE [SetCall EXCEPT !.componentId = 2,
                             !.props = <<Entry("label", IF i % 2 = 1 THEN "First Name" ELSE "Name", 0, FALSE)>>]]

\* Chains of dispatched mutations: every short chain over ArgMutations, and
\* the chain that reaches the cap.
ArgChains ==
    UNION {[1..n -> ArgMutations] : n \in 1..MaxChain} \cup {FillChain}

RECURSIVE Run(_, _, _, _)
\* The stores left by each of the operations lo..hi dispatched one after the
\* other from store w; <<>> when one of them fails.  The chain is split in
\* halves, so that the evaluation nests only logarithmically deep.
Run(w, ops, lo, hi) ==
    IF lo = hi
    THEN LET r == dispatchToolCall(w, ops[lo])
         IN IF r.ok THEN <<r.w>> ELSE <<>>
    ELSE LET mid == (lo + hi) \div 2
             left == Run(w, ops, lo, mid)
             right == IF left = <<>> THEN <<>> ELSE Run(left[Len(left)], ops, mid + 1, hi)
         IN IF right = <<>> THEN <<>> ELSE left \o right

\* The stores w, w1, ..., wn passed through when the operations are
\* dispatched one after the other from w; <<>> when one of them fails.
Worlds(w, ops) ==
    LET rs == Run(w, ops, 1, Len(ops))
    IN IF rs = <<>> THEN <<>> ELSE <<w>> \o rs

UndoCall == [NoArgs EXCEPT !.tool = "form_history", !.action = "undo"]

\* From the last store of ws, as many undos as ws has mutations succeed,
\* the j-th of them brings back the tree of the store j places before the
\* last, and the undo after them fails with "Nothing to undo".
UndoesRetrace(ws) ==
    LET n == Len(ws) - 1
        us == Worlds(ws[n + 1], [j \in 1..n |-> UndoCall])
        u == dispatchToolCall(us[n + 1], UndoCall)
    IN /\ us # <<>>
       /\ \A j \in 1..n : View(us[j + 1], "f1").tree = View(ws[n + 1 - j], "f1").tree
       /\ ~u.ok
       /\ u.err = "Nothing to undo"

\* C40: from a form whose undo stack is empty, after n dispatched mutations
\* that all succeed (n up to the cap of MAX_HISTORY), n undos bring back the
\* earlier trees one by one in reverse order, down to the tree before the
\* first mutation, and the undo after them fails with "Nothing to undo".
C40_UndosRetraceMutations ==
    (forms["f1"].exists /\ undoStack["f1"] = <<>>) =>
        \A ops \in ArgChains :
            LET ws == Worlds(World, ops)
            IN ws # <<>> => UndoesRetrace(ws)

\* The undo stack is empty, some chain of three mutations from here
\* succeeds and passes through four different trees, and the last call was
\* an undo that failed right after one that succeeded.
C40_Witness ==
    /\ forms["f1"].exists
    /\ undoStack["f1"] = <<>>
    /\ last.kind = "undo" /\ ~last.ok /\ last.prev = "undo"
    /\ \E ops \in ArgChains :
          LET ws == Worlds(World, ops)
          IN /\ Len(ops) = 3
             /\ ws # <<>>
             /\ \A i, j \in 1..Len(ws) : i # j => View(ws[i], "f1").tree # View(ws[j], "f1").tree

====
